---- MODULE Spec2Model ----
(***************************************************************************)
(* A model of jira-workflow-gitbot: a Probot application that keeps a      *)
(* GitHub pull request and the Jira issue named in its title in step.      *)
(*                                                                         *)
(* Strings the code takes apart (titles, issue keys, body lines) are       *)
(* sequences of one-character strings; strings it only compares (logins,   *)
(* Jira user names, URLs) are TLA+ strings.  In Spec every handler is one   *)
(* action: the handlers of src/src/index.ts run without overlapping.  Each *)
(* external call of an invocation is appended to calls; the set F an       *)
(* action draws names the positions (1st, 2nd, ... call of the             *)
(* invocation) whose call fails.  The specifications at the end apply one  *)
(* function on its own (toGitHubUser, parseTitle, markdownToJira), and     *)
(* SpecOverlap runs two invocations of the opened/edited handler that      *)
(* take turns at their external calls.                                     *)
(***************************************************************************)
EXTENDS Integers, Sequences, FiniteSets, TLC

VARIABLES
    cfg,            \* the repository's jira.yml, after defaults
    env,            \* what the users of the run do to the pull request
    cachedIssue,    \* probot-metadata value under 'jira-issue' for the PR
    jiraLinks,      \* issue key -> sequence of remote links
    jiraComments,   \* issue key -> sequence of comments
    jiraAssignee,   \* issue key -> assignee name, "" when unassigned
    jiraReviewers,  \* issue key -> names in the reviewers custom field
    prAssignee,     \* login of the PR's assignee, "" when none
    prReviewers,    \* logins of the PR's requested reviewers
    calls,          \* external calls of the last handler invocation, in order
    thrown,         \* the last handler invocation ended with an exception
    lastEvent,      \* the event the last handler invocation received
    given,          \* the argument a function is applied to on its own
    returned,       \* <<the function's result>>, <<>> before the application
    running         \* the invocations in flight of the runs with overlapping handlers,
                    \* the events on their way of the runs with events the engine causes

vars == <<cfg, env, cachedIssue, jiraLinks, jiraComments, jiraAssignee,
          jiraReviewers, prAssignee, prReviewers, calls, thrown, lastEvent,
          given, returned, running>>

(***************************************************************************)
(* Bounds of the model.                                                    *)
(***************************************************************************)
\* at most this many of the external calls of one handler invocation fail
MaxFail == 1

(***************************************************************************)
(* Characters.                                                             *)
(***************************************************************************)
LowerCase == <<"a","b","c","d","e","f","g","h","i","j","k","l","m",
               "n","o","p","q","r","s","t","u","v","w","x","y","z">>
UpperCase == <<"A","B","C","D","E","F","G","H","I","J","K","L","M",
               "N","O","P","Q","R","S","T","U","V","W","X","Y","Z">>
Digits == {"0","1","2","3","4","5","6","7","8","9"}

\* the characters \s matches, among those the model uses
IsSpace(c) == c \in {" ", "\t", "\n", "\r"}
\* the characters . matches: everything but line terminators
IsDot(c) == c \notin {"\n", "\r"}

toUpperCaseChar(c) ==
    IF \E i \in 1..26 : LowerCase[i] = c
    THEN UpperCase[CHOOSE i \in 1..26 : LowerCase[i] = c]
    ELSE c

toUpperCase(s) == [i \in 1..Len(s) |-> toUpperCaseChar(s[i])]

\* s, from position i on, starts with p
StartsWithAt(s, i, p) ==
    /\ i + Len(p) - 1 <= Len(s)
    /\ \A k \in 1..Len(p) : s[i + k - 1] = p[k]

startsWith(s, p) == StartsWithAt(s, 1, p)

\* the same, ignoring case (the regular expression's 'i' flag)
StartsWithAtNoCase(s, i, p) ==
    /\ i + Len(p) - 1 <= Len(s)
    /\ \A k \in 1..Len(p) : toUpperCaseChar(s[i + k - 1]) = toUpperCaseChar(p[k])

\* first position >= i of s that holds no space (no digit); Len(s)+1 if none
RECURSIVE SkipSpaces(_, _)
SkipSpaces(s, i) ==
    IF i <= Len(s) /\ IsSpace(s[i]) THEN SkipSpaces(s, i + 1) ELSE i

RECURSIVE SkipDigits(_, _)
SkipDigits(s, i) ==
    IF i <= Len(s) /\ s[i] \in Digits THEN SkipDigits(s, i + 1) ELSE i

Slice(s, from, to) == [k \in 1..(to - from + 1) |-> s[from + k - 1]]

(***************************************************************************)
(* parseTitle: title.match(issuePrefixRegex) with                          *)
(*   ^\s*\[?\s*(KEY-\d+)\s*\]?\s*(?:-|:)\s*(.+)\s*$   flag i               *)
(* Up to the separator every quantifier has one way to match.  After it,   *)
(* \s*(.+)\s*$ backtracks: the first \s* takes as many characters as it    *)
(* can, then (.+) as many as it can, such that what is left is spaces.     *)
(***************************************************************************)
NoMatch == [matched |-> FALSE, key |-> <<>>, rest |-> <<>>]

RECURSIVE SkipDots(_, _)
SkipDots(s, i) ==
    IF i <= Len(s) /\ IsDot(s[i]) THEN SkipDots(s, i + 1) ELSE i

AllSpacesFrom(s, i) == \A k \in i..Len(s) : IsSpace(s[k])

\* \s*(.+)\s*$ on s from position p, the first \s* taking ws characters: (.+)
\* runs to the first line terminator or the end (a shorter run leaves the same
\* characters to the last \s*, so it matches only if the longest does); when
\* that fails the first \s* gives one character back
RECURSIVE MatchTailFrom(_, _, _)
MatchTailFrom(s, p, ws) ==
    IF ws < 0 THEN <<FALSE, <<>>>>
    ELSE IF SkipDots(s, p + ws) > p + ws /\ AllSpacesFrom(s, SkipDots(s, p + ws))
         THEN <<TRUE, Slice(s, p + ws, SkipDots(s, p + ws) - 1)>>
         ELSE MatchTailFrom(s, p, ws - 1)

MatchTail(s, p) == MatchTailFrom(s, p, SkipSpaces(s, p) - p)

\* an optional character c at position i
SkipOptional(s, i, c) == IF i <= Len(s) /\ s[i] = c THEN i + 1 ELSE i

\* (?:-|:) at position p6, then the tail; the key is title[p3..d2-1]
MatchSeparator(title, p3, d2, p6) ==
    IF p6 <= Len(title) /\ title[p6] \in {"-", ":"} /\ MatchTail(title, p6 + 1)[1]
    THEN [matched |-> TRUE, key |-> Slice(title, p3, d2 - 1),
          rest |-> MatchTail(title, p6 + 1)[2]]
    ELSE NoMatch

\* \d+ from d1 to d2 - 1, then \s*\]?\s*
MatchDigits(title, p3, d1, d2) ==
    IF d2 > d1
    THEN MatchSeparator(title, p3, d2,
             SkipSpaces(title, SkipOptional(title, SkipSpaces(title, d2), "]")))
    ELSE NoMatch

\* KEY- at position p3
MatchKey(projectKey, title, p3) ==
    IF /\ StartsWithAtNoCase(title, p3, projectKey)
       /\ p3 + Len(projectKey) <= Len(title)
       /\ title[p3 + Len(projectKey)] = "-"
    THEN MatchDigits(title, p3, p3 + Len(projectKey) + 1,
                     SkipDigits(title, p3 + Len(projectKey) + 1))
    ELSE NoMatch

\* ^\s*\[?\s* and the rest
issuePrefixRegex(projectKey, title) ==
    MatchKey(projectKey, title,
             SkipSpaces(title, SkipOptional(title, SkipSpaces(title, 1), "[")))

\* MatchedIssue without the toUpperCase of line 85
MatchedIssueAsTyped(m) == [issue |-> m.key, description |-> m.rest]

\* [, issue, description] = title.match(...) || []; issue?.toUpperCase() || ''
MatchedIssue(m) == [issue |-> toUpperCase(m.key), description |-> m.rest]

parseTitle(projectKey, title) == MatchedIssue(issuePrefixRegex(projectKey, title))

(***************************************************************************)
(* markdownToJira (j2m.ts).  The input is a sequence of characters; every  *)
(* replace of lines 20-75 is a scan from left to right that, where the     *)
(* pattern matches, appends the replacement and goes on behind the match,  *)
(* and elsewhere copies one character.  A pattern's choices are tried in   *)
(* the order of the regular expression: a greedy quantifier from its       *)
(* longest run down, a lazy one from its shortest up.                      *)
(***************************************************************************)
\* \w
IsWord(c) ==
    \/ c \in Digits \/ c = "_"
    \/ \E i \in 1..26 : LowerCase[i] = c \/ UpperCase[i] = c

\* the line terminators: . matches none of them, and with the m flag ^
\* matches behind one and $ in front of one
IsLineTerminator(c) == c \in {"\n", "\r"}

\* ^ and $ of a pattern with the m flag, at position i of s
AtLineStart(s, i) == i = 1 \/ IsLineTerminator(s[i - 1])
AtLineEnd(s, i) == i = Len(s) + 1 \/ IsLineTerminator(s[i])

\* first position >= i of s that does not hold c; Len(s)+1 if none
RECURSIVE SkipChar(_, _, _)
SkipChar(s, i, c) ==
    IF i <= Len(s) /\ s[i] = c THEN SkipChar(s, i + 1, c) ELSE i

RECURSIVE SkipWord(_, _)
SkipWord(s, i) ==
    IF i <= Len(s) /\ IsWord(s[i]) THEN SkipWord(s, i + 1) ELSE i

\* first position >= i at which p starts, all of s[i..] in front of it being
\* matched by . when dots is TRUE; 0 if there is none
RECURSIVE FindAfter(_, _, _, _)
FindAfter(s, i, p, dots) ==
    IF i + Len(p) - 1 > Len(s) THEN 0
    ELSE IF StartsWithAt(s, i, p) THEN i
    ELSE IF dots /\ IsLineTerminator(s[i]) THEN 0
    ELSE FindAfter(s, i + 1, p, dots)

\* the decimal digits of a number, as String(n) writes them
DigitChars == <<"0", "1", "2", "3", "4", "5", "6", "7", "8", "9">>

RECURSIVE NumberToString(_)
NumberToString(n) ==
    IF n < 10 THEN <<DigitChars[n + 1]>>
    ELSE NumberToString(n \div 10) \o <<DigitChars[(n % 10) + 1]>>

\* lines 16, 28: START + counter++ + '%%'
START == <<"J","2","M","B","L","O","C","K","P","L","A","C","E","H","O","L","D","E","R">>

PlaceholderKey(counter) == START \o NumberToString(counter) \o <<"%", "%">>

\* the backtick, which a TLA+ string cannot hold
Backtick == "U+0060"

Fence == <<Backtick, Backtick, Backtick>>

\* the content and the closing backticks, from position from: the end of the shortest content of
\* one character at least that a fence follows; 0 if there is none
RECURSIVE ContentEnd(_, _, _)
ContentEnd(s, from, e) ==
    IF e > Len(s) THEN 0
    ELSE IF e > from /\ StartsWithAt(s, e, Fence) THEN e
    ELSE IF s[e] = "\r" THEN 0
    ELSE ContentEnd(s, from, e + 1)

\* (\w+)? ending at we, of a word that starts at oe: the longest first, then
\* shorter ones, then none.  <<end of the word, end of the content>>
RECURSIVE FenceWord(_, _, _)
FenceWord(s, oe, we) ==
    IF ContentEnd(s, we, we) # 0 THEN <<we, ContentEnd(s, we, we)>>
    ELSE IF we > oe THEN FenceWord(s, oe, we - 1)
    ELSE <<0, 0>>

\* the opening run of 3 backticks or more from position i, ending at oe: the whole run first, then shorter
\* ones.  <<end of the opening fence, end of the word, end of the content>>
RECURSIVE FenceOpen(_, _, _)
FenceOpen(s, i, oe) ==
    IF oe < i + 3 THEN <<0, 0, 0>>
    ELSE IF FenceWord(s, oe, SkipWord(s, oe))[1] # 0
    THEN <<oe>> \o FenceWord(s, oe, SkipWord(s, oe))
    ELSE FenceOpen(s, i, oe - 1)

\* the pattern of line 20 at position i: 3 backticks or more, (\w+)?,
\* ((?:\n|.)+?), 3 backticks or more
FenceMatch(s, i) == FenceOpen(s, i, SkipChar(s, i, Backtick))

\* lines 21-27: the block in Jira's syntax, m being the match
CodeBlock(s, m) ==
    <<"{", "c", "o", "d", "e">>
        \o (IF m[2] > m[1] THEN <<":">> \o Slice(s, m[1], m[2] - 1) ELSE <<>>)
        \o <<"}">> \o Slice(s, m[2], m[3] - 1) \o <<"{", "c", "o", "d", "e", "}">>

\* lines 20-31: r.input is what is written so far, r.replacementsList the
\* blocks taken out
RECURSIVE ExtractCode(_, _, _)
ExtractCode(s, i, r) ==
    IF i > Len(s) THEN r
    ELSE IF FenceMatch(s, i)[1] # 0
    THEN ExtractCode(s, SkipChar(s, FenceMatch(s, i)[3], Backtick),
             [input |-> r.input \o PlaceholderKey(Len(r.replacementsList)),
              replacementsList |->
                  Append(r.replacementsList,
                         [key |-> PlaceholderKey(Len(r.replacementsList)),
                          value |-> CodeBlock(s, FenceMatch(s, i))])])
    ELSE ExtractCode(s, i + 1, [r EXCEPT !.input = Append(@, s[i])])

\* first position >= i of s that holds none of = and -
RECURSIVE SkipUnderline(_, _)
SkipUnderline(s, i) ==
    IF i <= Len(s) /\ s[i] \in {"=", "-"} THEN SkipUnderline(s, i + 1) ELSE i

\* /^(.*?)\n([=-])+$/m at position i: the line ends with \n and the next
\* line is = and - only.  The end of the match, 0 if there is none
SetextMatch(s, i) ==
    IF /\ AtLineStart(s, i)
       /\ SkipDots(s, i) <= Len(s) /\ s[SkipDots(s, i)] = "\n"
       /\ SkipUnderline(s, SkipDots(s, i) + 1) > SkipDots(s, i) + 1
       /\ AtLineEnd(s, SkipUnderline(s, SkipDots(s, i) + 1))
    THEN SkipUnderline(s, SkipDots(s, i) + 1)
    ELSE 0

\* line 34: level is what ([=-]) matched last
SetextHeading(s, i, e) ==
    <<"h", (IF s[e - 1] = "=" THEN "1" ELSE "2"), ".", " ">>
        \o Slice(s, i, SkipDots(s, i) - 1)

\* lines 33-35
RECURSIVE SetextHeadings(_, _, _)
SetextHeadings(s, i, out) ==
    IF i > Len(s) THEN out
    ELSE IF SetextMatch(s, i) # 0
    THEN SetextHeadings(s, SetextMatch(s, i), out \o SetextHeading(s, i, SetextMatch(s, i)))
    ELSE SetextHeadings(s, i + 1, Append(out, s[i]))

\* /^([#]+)(.*?)$/m at position i
AtxMatch(s, i) == AtLineStart(s, i) /\ s[i] = "#"

\* AtxHeading that writes a blank behind the dot, as SetextHeading does
AtxHeadingSpaced(s, i) ==
    <<"h">> \o NumberToString(SkipChar(s, i, "#") - i) \o <<".", " ">>
        \o Slice(s, SkipChar(s, i, "#"), SkipDots(s, i) - 1)

\* line 38: 'h' + level.length + '.' + content
AtxHeading(s, i) ==
    <<"h">> \o NumberToString(SkipChar(s, i, "#") - i) \o <<".">>
        \o Slice(s, SkipChar(s, i, "#"), SkipDots(s, i) - 1)

\* lines 37-39
RECURSIVE AtxHeadings(_, _, _)
AtxHeadings(s, i, out) ==
    IF i > Len(s) THEN out
    ELSE IF AtxMatch(s, i)
    THEN AtxHeadings(s, SkipDots(s, i), out \o AtxHeading(s, i))
    ELSE AtxHeadings(s, i + 1, Append(out, s[i]))

\* first position >= i of s that holds none of * and _
RECURSIVE SkipWrapper(_, _)
SkipWrapper(s, i) ==
    IF i <= Len(s) /\ s[i] \in {"*", "_"} THEN SkipWrapper(s, i + 1) ELSE i

\* /([*_]+)(.*?)\1/ at position i, the wrapper ending at we: the longest
\* wrapper first.  <<end of the wrapper, end of the content>>
RECURSIVE EmphasisMatch(_, _, _)
EmphasisMatch(s, i, we) ==
    IF we <= i THEN <<0, 0>>
    ELSE IF FindAfter(s, we, Slice(s, i, we - 1), TRUE) # 0
    THEN <<we, FindAfter(s, we, Slice(s, i, we - 1), TRUE)>>
    ELSE EmphasisMatch(s, i, we - 1)

\* lines 42-43, m being the match
Emphasised(s, i, m) ==
    <<IF m[1] - i = 1 THEN "_" ELSE "*">> \o Slice(s, m[1], m[2] - 1)
        \o <<IF m[1] - i = 1 THEN "_" ELSE "*">>

\* lines 41-44
RECURSIVE Emphasis(_, _, _)
Emphasis(s, i, out) ==
    IF i > Len(s) THEN out
    ELSE IF EmphasisMatch(s, i, SkipWrapper(s, i))[1] # 0
    THEN Emphasis(s, EmphasisMatch(s, i, SkipWrapper(s, i))[2]
                         + (EmphasisMatch(s, i, SkipWrapper(s, i))[1] - i),
                  out \o Emphasised(s, i, EmphasisMatch(s, i, SkipWrapper(s, i))))
    ELSE Emphasis(s, i + 1, Append(out, s[i]))

\* /^(\s*)- (.*)$/m at position i: \s* runs over line terminators too
BulletMatch(s, i) ==
    /\ AtLineStart(s, i)
    /\ StartsWithAt(s, SkipSpaces(s, i), <<"-", " ">>)

\* Array(len).join('-'): len - 1 dashes
RECURSIVE Dashes(_)
Dashes(n) == IF n <= 0 THEN <<>> ELSE <<"-">> \o Dashes(n - 1)

\* lines 47-51
Bullet(s, i) ==
    Dashes(IF SkipSpaces(s, i) - i > 0 THEN ((SkipSpaces(s, i) - i) \div 4) + 1 ELSE 1)
        \o <<" ">> \o Slice(s, SkipSpaces(s, i) + 2, SkipDots(s, SkipSpaces(s, i) + 2) - 1)

\* lines 46-52
RECURSIVE Bullets(_, _, _)
Bullets(s, i, out) ==
    IF i > Len(s) THEN out
    ELSE IF BulletMatch(s, i)
    THEN Bullets(s, SkipDots(s, SkipSpaces(s, i) + 2), out \o Bullet(s, i))
    ELSE Bullets(s, i + 1, Append(out, s[i]))

\* line 54-60: the tags and what stands for them
map == << <<<<"c","i","t","e">>, <<"?","?">>>>, <<<<"d","e","l">>, <<"-">>>>,
          <<<<"i","n","s">>, <<"+">>>>, <<<<"s","u","p">>, <<"^">>>>,
          <<<<"s","u","b">>, <<"~">>>> >>

OpenTag(tag) == <<"<">> \o tag \o <<">">>
CloseTag(tag) == <<"<", "/">> \o tag \o <<">">>

\* /<(cite|del|ins|sup|sub)>(.*?)<\/\1>/ at position i with the k-th tag
TagMatches(s, i, k) ==
    /\ StartsWithAt(s, i, OpenTag(map[k][1]))
    /\ FindAfter(s, i + Len(OpenTag(map[k][1])), CloseTag(map[k][1]), TRUE) # 0

\* the tag that matches at position i, 0 if none does
TagAt(s, i) ==
    IF \E k \in DOMAIN map : TagMatches(s, i, k)
    THEN CHOOSE k \in DOMAIN map : TagMatches(s, i, k)
    ELSE 0

TagContentEnd(s, i, k) ==
    FindAfter(s, i + Len(OpenTag(map[k][1])), CloseTag(map[k][1]), TRUE)

\* lines 62-68
RECURSIVE InlineTags(_, _, _)
InlineTags(s, i, out) ==
    IF i > Len(s) THEN out
    ELSE IF TagAt(s, i) # 0
    THEN InlineTags(s, TagContentEnd(s, i, TagAt(s, i)) + Len(CloseTag(map[TagAt(s, i)][1])),
             out \o map[TagAt(s, i)][2]
                 \o Slice(s, i + Len(OpenTag(map[TagAt(s, i)][1])),
                          TagContentEnd(s, i, TagAt(s, i)) - 1)
                 \o map[TagAt(s, i)][2])
    ELSE InlineTags(s, i + 1, Append(out, s[i]))

Tildes == <<"~", "~">>

\* /~~(.*?)~~/ at position i: where the closing ~~ starts, 0 if no match
StrikeMatch(s, i) ==
    IF StartsWithAt(s, i, Tildes) THEN FindAfter(s, i + 2, Tildes, TRUE) ELSE 0

\* line 70
RECURSIVE Strikethrough(_, _, _)
Strikethrough(s, i, out) ==
    IF i > Len(s) THEN out
    ELSE IF StrikeMatch(s, i) # 0
    THEN Strikethrough(s, StrikeMatch(s, i) + 2,
             out \o <<"-">> \o Slice(s, i + 2, StrikeMatch(s, i) - 1) \o <<"-">>)
    ELSE Strikethrough(s, i + 1, Append(out, s[i]))

\* c, one character that is not d at least, d: where d stands; 0 if no match
Delimited(s, i, c, d) ==
    IF i <= Len(s) /\ s[i] = c /\ FindAfter(s, i + 1, <<d>>, FALSE) > i + 1
    THEN FindAfter(s, i + 1, <<d>>, FALSE)
    ELSE 0

\* line 72: a backtick, one character at least that is none, a backtick, to
\* {{$1}}
RECURSIVE InlineCode(_, _, _)
InlineCode(s, i, out) ==
    IF i > Len(s) THEN out
    ELSE IF Delimited(s, i, Backtick, Backtick) # 0
    THEN InlineCode(s, Delimited(s, i, Backtick, Backtick) + 1,
             out \o <<"{", "{">> \o Slice(s, i + 1, Delimited(s, i, Backtick, Backtick) - 1)
                 \o <<"}", "}">>)
    ELSE InlineCode(s, i + 1, Append(out, s[i]))

\* /\[([^\]]+)\]\(([^)]+)\)/ at position i: where the ) stands, 0 if no match
LinkMatch(s, i) ==
    IF Delimited(s, i, "[", "]") # 0
    THEN Delimited(s, Delimited(s, i, "[", "]") + 1, "(", ")")
    ELSE 0

\* line 74: to [$1|$2]
RECURSIVE Links(_, _, _)
Links(s, i, out) ==
    IF i > Len(s) THEN out
    ELSE IF LinkMatch(s, i) # 0
    THEN Links(s, LinkMatch(s, i) + 1,
             out \o <<"[">> \o Slice(s, i + 1, Delimited(s, i, "[", "]") - 1) \o <<"|">>
                 \o Slice(s, Delimited(s, i, "[", "]") + 2, LinkMatch(s, i) - 1)
                 \o <<"]">>)
    ELSE Links(s, i + 1, Append(out, s[i]))

\* line 75: /<([^>]+)>/ to [$1]
RECURSIVE AngleBrackets(_, _, _)
AngleBrackets(s, i, out) ==
    IF i > Len(s) THEN out
    ELSE IF Delimited(s, i, "<", ">") # 0
    THEN AngleBrackets(s, Delimited(s, i, "<", ">") + 1,
             out \o <<"[">> \o Slice(s, i + 1, Delimited(s, i, "<", ">") - 1) \o <<"]">>)
    ELSE AngleBrackets(s, i + 1, Append(out, s[i]))

\* String.prototype.replace with a string as the replacement: $$ is $, $& the
\* match, $ with a backtick what stands before it and $ with an apostrophe
\* what stands behind it
RECURSIVE GetSubstitution(_, _, _, _, _)
GetSubstitution(value, k, matched, before, after) ==
    IF k > Len(value) THEN <<>>
    ELSE IF value[k] = "$" /\ k < Len(value) /\ value[k + 1] \in {"$", "&", Backtick, "'"}
    THEN (CASE value[k + 1] = "$" -> <<"$">>
            [] value[k + 1] = "&" -> matched
            [] value[k + 1] = Backtick -> before
            [] OTHER -> after)
         \o GetSubstitution(value, k + 2, matched, before, after)
    ELSE <<value[k]>> \o GetSubstitution(value, k + 1, matched, before, after)

\* line 80: input.replace(sub['key'], sub['value']), at the key's first place
ReplaceFirst(s, at, key, value) ==
    IF at = 0 THEN s
    ELSE Slice(s, 1, at - 1)
         \o GetSubstitution(value, 1, key, Slice(s, 1, at - 1),
                            Slice(s, at + Len(key), Len(s)))
         \o Slice(s, at + Len(key), Len(s))

\* lines 78-81
RECURSIVE Restore(_, _)
Restore(s, replacementsList) ==
    IF replacementsList = <<>> THEN s
    ELSE Restore(ReplaceFirst(s, FindAfter(s, 1, Head(replacementsList).key, FALSE),
                              Head(replacementsList).key, Head(replacementsList).value),
                 Tail(replacementsList))

\* line 84: input.split(/\r?\n/gm)
RECURSIVE SplitLines(_, _, _)
SplitLines(s, i, lines) ==
    IF i > Len(s) THEN lines
    ELSE IF s[i] = "\n" THEN SplitLines(s, i + 1, Append(lines, <<>>))
    ELSE IF s[i] = "\r" /\ i < Len(s) /\ s[i + 1] = "\n"
    THEN SplitLines(s, i + 2, Append(lines, <<>>))
    ELSE SplitLines(s, i + 1, [lines EXCEPT ![Len(lines)] = Append(@, s[i])])

\* lines 33-75, on the text the code blocks were taken out of
Rewritten(s) ==
    AngleBrackets(Links(InlineCode(Strikethrough(InlineTags(Bullets(Emphasis(
        AtxHeadings(SetextHeadings(s, 1, <<>>), 1, <<>>),
        1, <<>>), 1, <<>>), 1, <<>>), 1, <<>>), 1, <<>>), 1, <<>>), 1, <<>>)

\* lines 33-81, r being what lines 20-31 left
Restored(r) == Restore(Rewritten(r.input), r.replacementsList)

(***************************************************************************)
(* The table-header loop and the final join (lines 83-99).                 *)
(***************************************************************************)
TableSeparator == <<"|", "-", "-", "-">>

\* line_content.match(/\|---/g) != null
MatchesSeparator(line) ==
    \E k \in 1..Len(line) : StartsWithAt(line, k, TableSeparator)

\* line.replace(/\|/g, '||')
RECURSIVE DoubleBars(_)
DoubleBars(line) ==
    IF line = <<>> THEN <<>>
    ELSE (IF Head(line) = "|" THEN <<"|", "|">> ELSE <<Head(line)>>)
         \o DoubleBars(Tail(line))

RemoveAt(s, i) == [k \in 1..(Len(s) - 1) |-> IF k < i THEN s[k] ELSE s[k + 1]]

\* the loop of lines 85-92; i is the loop index plus one.  lines[i - 1] of an
\* i of 0 is undefined, and the call of replace on it throws a TypeError.
RECURSIVE TableHeaderLoop(_, _)
TableHeaderLoop(lines, i) ==
    IF i > Len(lines) THEN [threw |-> FALSE, lines |-> lines]
    ELSE IF MatchesSeparator(lines[i])
         THEN IF i = 1 THEN [threw |-> TRUE, lines |-> lines]
              ELSE TableHeaderLoop(
                       RemoveAt([lines EXCEPT ![i - 1] = DoubleBars(lines[i - 1])], i),
                       i + 1)
         ELSE TableHeaderLoop(lines, i + 1)

RECURSIVE JoinLines(_)
JoinLines(lines) ==
    IF lines = <<>> THEN <<>>
    ELSE Head(lines) \o <<"\n">> \o JoinLines(Tail(lines))

\* lines 94-99
JoinResult(r) == [threw |-> r.threw, text |-> IF r.threw THEN <<>> ELSE JoinLines(r.lines)]

markdownToJira(input) ==
    JoinResult(TableHeaderLoop(
        SplitLines(Restored(ExtractCode(input, 1,
                                        [input |-> <<>>, replacementsList |-> <<>>])),
                   1, << <<>> >>),
        1))

\* index.ts 294-296: lines.join('\n')
RECURSIVE join(_)
join(lines) ==
    IF lines = <<>> THEN <<>>
    ELSE IF Len(lines) = 1 THEN Head(lines)
    ELSE Head(lines) \o <<"\n">> \o join(Tail(lines))

(***************************************************************************)
(* The world the handlers run in: one repository, one pull request, a Jira *)
(* with two issues of project TEST.                                        *)
(***************************************************************************)
PrUrl    == "https://github.com/testuser/test-repo/pull/1"
OtherUrl == "https://github.com/testuser/test-repo/pull/2"
PrId     == "1"
PrUser   == "a"                 \* payload.pull_request.user.login
JiraUser == "gitbot"            \* process.env.JIRA_USER

ProjectKey == <<"T", "E", "S", "T">>
Key1 == <<"T", "E", "S", "T", "-", "1">>
Key2 == <<"T", "E", "S", "T", "-", "2">>
Key9 == <<"T", "E", "S", "T", "-", "9">>      \* no such issue in Jira
JiraIssues == {Key1, Key2}

\* null, of a variable that holds an issue key
NullIssue == <<"null">>

\* titles a pull request of the model is given
TitleFix  == <<"T","E","S","T","-","1",":"," ","f","i","x">>
TitleAdd  == <<"[","t","e","s","t","-","2","]"," ","-"," ","a","d","d">>
TitleGone == <<"T","E","S","T","-","9",":"," ","g","o","n","e">>
TitleNone == <<"n","o"," ","i","s","s","u","e">>
Titles == {TitleFix, TitleAdd, TitleGone, TitleNone}

\* bodies: payload.pull_request.body is null for a PR without description
NullBody  == [isNull |-> TRUE, lines |-> <<>>]
BodyText  == [isNull |-> FALSE,
              lines |-> << <<"<","!","-","-"," ","t"," ","-","-",">">>,
                           <<"a","|","b">>, <<"-","|","-","-","-">> >>]
BodyTable == [isNull |-> FALSE, lines |-> << <<"|","-","-","-","|">> >>]
Bodies == {NullBody, BodyText, BodyTable}

\* GitHub logins, and those that are requested as reviewers in the model
Logins == {"a", "b", "c", "d", "e"}
ReviewerLogins == {"b", "c"}

\* Jira's users
UserA     == [name |-> "A", displayName |-> "Ann"]
UserB     == [name |-> "B", displayName |-> "Bob"]
UserX     == [name |-> "X", displayName |-> "Xia"]
UserCarol == [name |-> "carol", displayName |-> "Carol"]
UserDan   == [name |-> "dan", displayName |-> "Dan"]
UserDave  == [name |-> "dave", displayName |-> "Dave"]
JiraUsers == {UserA, UserB, UserX, UserCarol, UserDan, UserDave}

\* what GET user/search answers for a query
UserSearch(query) ==
    CASE query = "A" -> <<UserA>>
      [] query = "B" -> <<UserB>>
      [] query = "c" -> <<UserCarol>>
      [] query = "d" -> <<UserDan, UserDave>>
      [] OTHER -> <<>>

(***************************************************************************)
(* Configuration: getJiraCfg's defaults and the jira.yml of the model.     *)
(***************************************************************************)
DefaultCfg == [host |-> "", protocol |-> "https", projectKey |-> <<>>,
               apiVersion |-> "latest", userMap |-> <<>>,
               fields |-> [reviewers |-> ""]]

\* userMap, in the order of its entries
TheUserMap == << <<"a", "A">>, <<"b", "B">> >>

FullCfg == [DefaultCfg EXCEPT !.host = "fake-jira", !.projectKey = ProjectKey,
                              !.userMap = TheUserMap,
                              !.fields = [reviewers |-> "customfield_11234"]]

\* the helper object, or null
NullJira == [isNull |-> TRUE, projectKey |-> <<>>, userMap |-> <<>>,
             fields |-> [reviewers |-> ""], username |-> "", url |-> ""]

\* getJira without the test of projectKey (lines 55-58)
getJiraWithoutProjectKeyTest(c) ==
    IF c.host = "" THEN NullJira
    ELSE [isNull |-> FALSE, projectKey |-> c.projectKey, userMap |-> c.userMap,
          fields |-> c.fields, username |-> JiraUser,
          url |-> <<c.protocol, "://", c.host>>]

getJira(c) ==
    IF c.host = "" THEN NullJira
    ELSE IF c.projectKey = <<>> THEN NullJira
    ELSE [isNull |-> FALSE, projectKey |-> c.projectKey, userMap |-> c.userMap,
          fields |-> c.fields, username |-> JiraUser,
          url |-> <<c.protocol, "://", c.host>>]

\* this.userMap[login]: "" stands for undefined
userMapGet(userMap, login) ==
    IF \E i \in 1..Len(userMap) : userMap[i][1] = login
    THEN userMap[CHOOSE i \in 1..Len(userMap) : userMap[i][1] = login][2]
    ELSE ""

\* toGitHubUser that falls back to the name itself when it is a userMap key,
\* as the forward direction falls back to the login
toGitHubUserWithFallback(userMap, jiraUser) ==
    LET hits == {i \in 1..Len(userMap) : userMap[i][2] = jiraUser}
    IN  IF hits = {}
        THEN IF \E i \in 1..Len(userMap) : userMap[i][1] = jiraUser THEN jiraUser ELSE ""
        ELSE userMap[CHOOSE i \in hits : \A k \in hits : i <= k][1]

\* Object.entries(this.userMap).find(([, j]) => j === jiraUser)?.[0] || null
toGitHubUser(userMap, jiraUser) ==
    LET hits == {i \in 1..Len(userMap) : userMap[i][2] = jiraUser}
    IN  IF hits = {} THEN ""
        ELSE userMap[CHOOSE i \in hits : \A k \in hits : i <= k][1]

\* getPrAssignee: the login of the payload's assignee, "" for null
getPrAssignee(payload) == payload.assignee

(***************************************************************************)
(* A handler invocation works on a record w of the state it reads and      *)
(* writes; w.calls are the external calls it has issued so far, w.thrown   *)
(* says that an exception is propagating.                                  *)
(***************************************************************************)
World ==
    [cached |-> cachedIssue, links |-> jiraLinks, comments |-> jiraComments,
     assignee |-> jiraAssignee, reviewers |-> jiraReviewers,
     prAssignee |-> prAssignee, prReviewers |-> prReviewers,
     calls |-> <<>>, thrown |-> FALSE]

\* the call the invocation issues next is one of those that fail
NextFails(w, F) == (Len(w.calls) + 1) \in F

Call(w, op, issue, arg, ok) ==
    [w EXCEPT !.calls = Append(@, [op |-> op, issue |-> issue, arg |-> arg, ok |-> ok])]

LastOk(w) == w.calls[Len(w.calls)].ok

Throw(w) == [w EXCEPT !.thrown = TRUE]

\* a catch block has taken the exception
Caught(w) == [w EXCEPT !.thrown = FALSE]

\* the outcome of a call that was issued with result ok
Settle(w1, ok) == IF ok THEN w1 ELSE Throw(w1)

\* jira.fetch: resolves when the response is ok, throws otherwise.  `found`
\* says that the resource exists in Jira.
fetch(w, F, op, issue, arg, found) ==
    Settle(Call(w, op, issue, arg, found /\ ~NextFails(w, F)), found /\ ~NextFails(w, F))

\* writeComment: context.octokit.issues.createComment
writeComment(w, F, comment) ==
    Settle(Call(w, "github.issues.createComment", <<>>, comment, ~NextFails(w, F)),
           ~NextFails(w, F))

\* the comments the handlers write
Comment(text, issue, who) == [text |-> text, issue |-> issue, who |-> who]
CreateInJiraComment  == Comment("Please create issues in Jira", <<>>, "")
LinkedComment(issue) == Comment("Successfully linked this PR to Jira", issue, "")
NotFoundComment(issue) == Comment("could not be found in Jira", issue, "")
NoIssueComment(projectKey) ==
    Comment("Warning: no Jira issue is associated with this PR", projectKey, "")
CouldNotUpdateAssigneeComment(issue, login) ==
    Comment("Could not update assignee, user mapping required. Please update manually.",
            issue, login)
AssignedComment(issue, displayName) ==
    Comment("Jira ticket has been assigned to", issue, displayName)
AssigneeFailedComment(issue) ==
    Comment("Warning: failed to update assignee, please update manually.", issue, "")
ReviewersFailedComment(issue) ==
    Comment("Warning: failed to update reviewers, please update manually.", issue, "")

\* getCachedIssue: (await metadata(context).get(metaKey_jiraIssue)) || ''
getCachedIssue(w, F) ==
    Settle(Call(w, "metadata.get", <<>>, <<>>, ~NextFails(w, F)), ~NextFails(w, F))

\* setCachedIssue: metadata(context).set(metaKey_jiraIssue, issue)
setCachedIssue(w, F, issue) ==
    IF ~NextFails(w, F)
    THEN [Call(w, "metadata.set", <<>>, issue, TRUE) EXCEPT !.cached = issue]
    ELSE Throw(Call(w, "metadata.set", <<>>, issue, FALSE))

\* what GET issue/{key} answers
NoDetail == [found |-> FALSE, assignee |-> "", reviewers |-> {}, comments |-> <<>>]

IssueFields(w, issue) ==
    [found |-> TRUE, assignee |-> w.assignee[issue],
     reviewers |-> w.reviewers[issue], comments |-> w.comments[issue]]

\* getIssueDetail: the fetch, with its failure turned into null
getIssueDetail(w, F, issue) ==
    Caught(fetch(w, F, "jira.GET issue", issue, <<>>, issue \in JiraIssues))

(***************************************************************************)
(* setAssignee (probotHelpers.ts 159-209)                                  *)
(***************************************************************************)
\* TargetUser without the userMap
TargetUserUnmapped(userMap, login) == login

\* this.userMap[login] || login
TargetUser(userMap, login) ==
    IF userMapGet(userMap, login) # "" THEN userMapGet(userMap, login) ELSE login

\* lines 190-208: the PUT and the comment about its outcome
PutAssignee(w, F, issue, jiraUser) ==
    LET Confirm(v) ==
            IF v.thrown THEN v
            ELSE writeComment([v EXCEPT !.assignee[issue] = jiraUser.name], F,
                              AssignedComment(issue, jiraUser.displayName))
        Handler(v) ==
            IF v.thrown THEN writeComment(Caught(v), F, AssigneeFailedComment(issue))
            ELSE v
    IN  Handler(Confirm(fetch(w, F, "jira.PUT issue/assignee", issue, jiraUser,
                              issue \in JiraIssues)))

\* SearchUser that takes the first of several results
SearchUserTakingFirst(w, F, issue, login, targetUser) ==
    LET Rest(v) ==
            IF v.thrown THEN v
            ELSE IF Len(UserSearch(targetUser)) = 0
            THEN writeComment(v, F, CouldNotUpdateAssigneeComment(issue, login))
            ELSE PutAssignee(v, F, issue, UserSearch(targetUser)[1])
    IN  Rest(fetch(w, F, "jira.GET user/search", <<>>, targetUser, TRUE))

\* lines 167-188: the catch block of the exact lookup, and what follows it
SearchUser(w, F, issue, login, targetUser) ==
    LET Rest(v) ==
            IF v.thrown THEN v
            ELSE IF Len(UserSearch(targetUser)) # 1
            THEN writeComment(v, F, CouldNotUpdateAssigneeComment(issue, login))
            ELSE PutAssignee(v, F, issue, UserSearch(targetUser)[1])
    IN  Rest(fetch(w, F, "jira.GET user/search", <<>>, targetUser, TRUE))

\* lines 165-208
LookupUser(w, F, issue, login, targetUser) ==
    LET Rest(v) ==
            IF v.thrown THEN SearchUser(Caught(v), F, issue, login, targetUser)
            ELSE PutAssignee(v, F, issue, CHOOSE u \in JiraUsers : u.name = targetUser)
    IN  Rest(fetch(w, F, "jira.GET user", <<>>, targetUser,
                   \E u \in JiraUsers : u.name = targetUser))

\* setAssignee that assigns the login on the pull request as well
setAssigneeAssigningPr(w, F, jira, issue, login) ==
    LET Rest(v) ==
            IF v.thrown THEN v
            ELSE IF ~NextFails(v, F)
            THEN [Call(v, "github.issues.addAssignees", <<>>, {login}, TRUE)
                      EXCEPT !.prAssignee = login]
            ELSE Throw(Call(v, "github.issues.addAssignees", <<>>, {login}, FALSE))
    IN  Rest(LookupUser(w, F, issue, login, TargetUser(jira.userMap, login)))

setAssignee(w, F, jira, issue, login) ==
    LookupUser(w, F, issue, login, TargetUser(jira.userMap, login))

(***************************************************************************)
(* setReviewers (probotHelpers.ts 217-243)                                 *)
(***************************************************************************)
\* logins.map((r) => this.userMap[r]).filter((u) => !!u)
MappedNames(userMap, logins) == {userMapGet(userMap, r) : r \in logins} \ {""}

\* lines 222-242
PutMappedReviewers(w, F, issue, names) ==
    LET Rest(v) ==
            IF v.thrown THEN writeComment(Caught(v), F, ReviewersFailedComment(issue))
            ELSE [v EXCEPT !.reviewers[issue] = names]
    IN  Rest(fetch(w, F, "jira.PUT issue", issue, names, issue \in JiraIssues))

\* setReviewers that adds to the field's value instead of replacing it
setReviewersAdditive(w, F, jira, issue, logins) ==
    IF jira.fields.reviewers = "" THEN w
    ELSE PutMappedReviewers(w, F, issue,
             MappedNames(jira.userMap, logins)
                 \cup (IF issue \in JiraIssues THEN w.reviewers[issue] ELSE {}))

setReviewers(w, F, jira, issue, logins) ==
    IF jira.fields.reviewers = "" THEN w
    ELSE PutMappedReviewers(w, F, issue, MappedNames(jira.userMap, logins))

(***************************************************************************)
(* The pull_request.opened / pull_request.edited handler (index.ts 198-381)*)
(***************************************************************************)
\* a remote link of an issue; self is the handle a DELETE names
LinkSelves(links) == {links[i].self : i \in 1..Len(links)}
NewSelf(links) == CHOOSE n \in 1..(Len(links) + 1) :
                      /\ n \notin LinkSelves(links)
                      /\ \A m \in 1..(n - 1) : m \in LinkSelves(links)

LinkTitle(prId, prTitleText) == [head |-> "GitHub PR #", prId |-> prId, text |-> prTitleText]

NewLink(links, prTitleText) ==
    [self |-> NewSelf(links), url |-> PrUrl, title |-> LinkTitle(PrId, prTitleText)]

\* IsPrLink without the comparison of the URL
IsLinkOfAnyUrl(link) == link.url \in {PrUrl, OtherUrl}

IsPrLink(link) == link.url = PrUrl

\* the issue's links without the one a DELETE named
WithoutLink(links, self) == SelectSeq(links, LAMBDA l : l.self # self)

\* lines 242: one DELETE
DeleteLink(w, F, issue, self) ==
    IF ~NextFails(w, F)
    THEN [Call(w, "jira.DELETE remotelink", issue, self, TRUE)
              EXCEPT !.links[issue] = WithoutLink(@, self)]
    ELSE Throw(Call(w, "jira.DELETE remotelink", issue, self, FALSE))

\* lines 239-244: one DELETE per link, all of them issued (Promise.all); the
\* promise rejects when one of them failed
RECURSIVE DeleteLinks(_, _, _, _)
DeleteLinks(w, F, issue, existingLinks) ==
    IF existingLinks = <<>> THEN w
    ELSE DeleteLinks(DeleteLink(w, F, issue, Head(existingLinks).self), F, issue,
                     Tail(existingLinks))

\* RemoveOldReference without the try/catch of lines 235-247
RemoveOldReferenceUncaught(w, F, existingIssue) ==
    LET Rest(v) ==
            IF v.thrown THEN v
            ELSE DeleteLinks(v, F, existingIssue,
                             SelectSeq(v.links[existingIssue], IsPrLink))
    IN  Rest(fetch(w, F, "jira.GET remotelink", existingIssue, <<>>,
                   existingIssue \in JiraIssues))

\* lines 232-248: remove the old reference; every failure is caught and logged
RemoveOldReference(w, F, existingIssue) ==
    LET Rest(v) ==
            IF v.thrown THEN v
            ELSE DeleteLinks(v, F, existingIssue,
                             SelectSeq(v.links[existingIssue], IsPrLink))
    IN  Caught(Rest(fetch(w, F, "jira.GET remotelink", existingIssue, <<>>,
                          existingIssue \in JiraIssues)))

\* CreateLink without the comment of lines 264-267
CreateLinkWithoutComment(w, F, detectedIssue, link) ==
    LET Rest(v) ==
            IF v.thrown THEN v ELSE [v EXCEPT !.links[detectedIssue] = Append(@, link)]
    IN  Rest(fetch(w, F, "jira.POST remotelink", detectedIssue, link, TRUE))

\* lines 255-267
CreateLink(w, F, detectedIssue, link) ==
    LET Rest(v) ==
            IF v.thrown THEN v
            ELSE writeComment([v EXCEPT !.links[detectedIssue] = Append(@, link)],
                              F, LinkedComment(detectedIssue))
    IN  Rest(fetch(w, F, "jira.POST remotelink", detectedIssue, link, TRUE))

\* LinkIssue without the test of line 254
LinkIssueWithoutLookup(w, F, detectedIssue, prTitleText) ==
    LET Rest(v) ==
            IF v.thrown THEN v
            ELSE CreateLink(v, F, detectedIssue,
                            NewLink(v.links[detectedIssue], prTitleText))
    IN  Rest(fetch(w, F, "jira.GET remotelink", detectedIssue, <<>>, TRUE))

\* LinkIssue that posts the success comment for a link that was there too
LinkIssueCommentingAlways(w, F, detectedIssue, prTitleText) ==
    LET Rest(v) ==
            IF v.thrown THEN v
            ELSE IF ~(\E i \in 1..Len(v.links[detectedIssue]) :
                          v.links[detectedIssue][i].url = PrUrl)
            THEN CreateLink(v, F, detectedIssue,
                            NewLink(v.links[detectedIssue], prTitleText))
            ELSE writeComment(v, F, LinkedComment(detectedIssue))
    IN  Rest(fetch(w, F, "jira.GET remotelink", detectedIssue, <<>>, TRUE))

\* lines 252-270: the issue was found
LinkIssue(w, F, detectedIssue, prTitleText) ==
    LET Rest(v) ==
            IF v.thrown THEN v
            ELSE IF ~(\E i \in 1..Len(v.links[detectedIssue]) :
                          v.links[detectedIssue][i].url = PrUrl)
            THEN CreateLink(v, F, detectedIssue,
                            NewLink(v.links[detectedIssue], prTitleText))
            ELSE v
    IN  Rest(fetch(w, F, "jira.GET remotelink", detectedIssue, <<>>, TRUE))

\* lines 250-282
AddNewIssue(w, F, jira, detectedIssue, prTitleText, issueDetail) ==
    IF detectedIssue # <<>>
    THEN IF issueDetail.found
         THEN LinkIssue(w, F, detectedIssue, prTitleText)
         ELSE writeComment(w, F, NotFoundComment(detectedIssue))
    ELSE writeComment(w, F, NoIssueComment(jira.projectKey))

\* ReconcileTitle without the test of line 228
ReconcileTitleAlways(w, F, jira, detectedIssue, prTitleText, existingIssue, issueDetail) ==
    LET Rest(v) == IF v.thrown THEN v ELSE setCachedIssue(v, F, detectedIssue)
    IN  Rest(AddNewIssue(IF existingIssue # NullIssue /\ existingIssue # <<>>
                         THEN RemoveOldReference(w, F, existingIssue)
                         ELSE w,
                         F, jira, detectedIssue, prTitleText, issueDetail))

\* ReconcileTitle that leaves the Association alone when the issue was not found
ReconcileTitleFoundOnly(w, F, jira, detectedIssue, prTitleText, existingIssue, issueDetail) ==
    LET Rest(v) ==
            IF v.thrown \/ (detectedIssue # <<>> /\ ~issueDetail.found) THEN v
            ELSE setCachedIssue(v, F, detectedIssue)
    IN  IF detectedIssue = existingIssue THEN w
        ELSE Rest(AddNewIssue(IF existingIssue # NullIssue /\ existingIssue # <<>>
                              THEN RemoveOldReference(w, F, existingIssue)
                              ELSE w,
                              F, jira, detectedIssue, prTitleText, issueDetail))

\* lines 228-286
ReconcileTitle(w, F, jira, detectedIssue, prTitleText, existingIssue, issueDetail) ==
    LET Rest(v) == IF v.thrown THEN v ELSE setCachedIssue(v, F, detectedIssue)
    IN  IF detectedIssue = existingIssue THEN w
        ELSE Rest(AddNewIssue(IF existingIssue # NullIssue /\ existingIssue # <<>>
                              THEN RemoveOldReference(w, F, existingIssue)
                              ELSE w,
                              F, jira, detectedIssue, prTitleText, issueDetail))

\* lines 291-297: the comment's body, md being markdownToJira's result
CommentPrefix == "Linked to GitHub PR"

IsNotHtmlComment(l) == ~startsWith(l, <<"<", "!", "-", "-">>)

CommentBody(prTitleText, md) ==
    [head |-> CommentPrefix, prId |-> PrId, text |-> prTitleText, url |-> PrUrl,
     rest |-> md]

\* lines 298-300: the comments find() looks through, in their order
IsSyncComment(c, username) == c.author = username /\ c.body.head = CommentPrefix

SyncComments(comments, username) ==
    SelectSeq(comments, LAMBDA c : IsSyncComment(c, username))

\* lines 303-306, in the try of 301-315
UpdateComment(w, F, detectedIssue, id, body) ==
    LET Rest(v) ==
            IF v.thrown THEN Caught(v)
            ELSE [v EXCEPT !.comments[detectedIssue] =
                     [k \in 1..Len(@) |->
                         IF @[k].id = id
                         THEN [id |-> id, author |-> @[k].author, body |-> body]
                         ELSE @[k]]]
    IN  Rest(fetch(w, F, "jira.PUT comment", detectedIssue, [id |-> id, body |-> body],
                   TRUE))

\* lines 308-311, in the try of 301-315
CreateComment(w, F, jira, detectedIssue, body) ==
    LET Rest(v) ==
            IF v.thrown THEN Caught(v)
            ELSE [v EXCEPT !.comments[detectedIssue] =
                     Append(@, [id |-> Len(@) + 1, author |-> jira.username,
                                body |-> body])]
    IN  Rest(fetch(w, F, "jira.POST comment", detectedIssue, [id |-> 0, body |-> body],
                   TRUE))

\* UpsertComment without the lookup of lines 298-300
UpsertCommentAlwaysCreate(w, F, jira, detectedIssue, body, issueDetail) ==
    CreateComment(w, F, jira, detectedIssue, body)

\* lines 298-315: update the comment or create it; a failure is caught and logged
UpsertComment(w, F, jira, detectedIssue, body, issueDetail) ==
    IF SyncComments(issueDetail.comments, jira.username) # <<>>
    THEN UpdateComment(w, F, detectedIssue,
                       Head(SyncComments(issueDetail.comments, jira.username)).id, body)
    ELSE CreateComment(w, F, jira, detectedIssue, body)

\* lines 322-326
AddAssignee(w, F, ghUser) ==
    IF ~NextFails(w, F)
    THEN [Call(w, "github.issues.addAssignees", <<>>, {ghUser}, TRUE)
              EXCEPT !.prAssignee = ghUser]
    ELSE Throw(Call(w, "github.issues.addAssignees", <<>>, {ghUser}, FALSE))

\* SyncAssignee that pushes the PR's assignee over the one the issue has
SyncAssigneeOverwriting(w, F, jira, detectedIssue, payload, issueDetail) ==
    IF getPrAssignee(payload) = "" /\ issueDetail.assignee # ""
    THEN IF toGitHubUser(jira.userMap, issueDetail.assignee) # ""
         THEN AddAssignee(w, F, toGitHubUser(jira.userMap, issueDetail.assignee))
         ELSE w
    ELSE IF getPrAssignee(payload) # ""
    THEN setAssignee(w, F, jira, detectedIssue, getPrAssignee(payload))
    ELSE w

\* lines 317-330
SyncAssignee(w, F, jira, detectedIssue, payload, issueDetail) ==
    IF getPrAssignee(payload) = "" /\ issueDetail.assignee # ""
    THEN IF toGitHubUser(jira.userMap, issueDetail.assignee) # ""
         THEN AddAssignee(w, F, toGitHubUser(jira.userMap, issueDetail.assignee))
         ELSE w
    ELSE IF getPrAssignee(payload) # "" /\ issueDetail.assignee = ""
    THEN setAssignee(w, F, jira, detectedIssue, getPrAssignee(payload))
    ELSE w

\* lines 339-345
ToAddToPr(jira, existingJiraReviewers, existingPrReviewers, prUser) ==
    (({toGitHubUser(jira.userMap, j) : j \in existingJiraReviewers} \ {""})
        \ existingPrReviewers) \ {prUser}

\* lines 358-361
ToAddToJira(jira, existingJiraReviewers, existingPrReviewers) ==
    MappedNames(jira.userMap, existingPrReviewers) \ existingJiraReviewers

\* lines 346-356
RequestReviewers(w, F, toAddToPr) ==
    IF toAddToPr = {} THEN w
    ELSE IF ~NextFails(w, F)
    THEN [Call(w, "github.pulls.requestReviewers", <<>>, toAddToPr, TRUE)
              EXCEPT !.prReviewers = @ \cup toAddToPr]
    ELSE Call(w, "github.pulls.requestReviewers", <<>>, toAddToPr, FALSE)

\* PutReviewers that writes the added names only
PutReviewersAddedOnly(w, F, detectedIssue, toAddToJira, existingJiraReviewers) ==
    LET Rest(v) ==
            IF v.thrown THEN Caught(v)
            ELSE [v EXCEPT !.reviewers[detectedIssue] = toAddToJira]
    IN  Rest(fetch(w, F, "jira.PUT issue", detectedIssue, toAddToJira, TRUE))

\* lines 362-378; an array is truthy, so the test of line 362 always passes
PutReviewers(w, F, detectedIssue, toAddToJira, existingJiraReviewers) ==
    LET Rest(v) ==
            IF v.thrown THEN Caught(v)
            ELSE [v EXCEPT !.reviewers[detectedIssue] =
                               toAddToJira \cup existingJiraReviewers]
    IN  Rest(fetch(w, F, "jira.PUT issue", detectedIssue,
                   toAddToJira \cup existingJiraReviewers, TRUE))

\* SyncReviewers that gives up when the request on the PR failed
SyncReviewersStoppingAtFailure(w, F, jira, detectedIssue, payload, issueDetail) ==
    LET Rest(v) ==
            IF v.calls # <<>> /\ v.calls[Len(v.calls)].op = "github.pulls.requestReviewers"
                /\ ~LastOk(v)
            THEN v
            ELSE PutReviewers(v, F, detectedIssue,
                              ToAddToJira(jira, issueDetail.reviewers,
                                          payload.requested_reviewers),
                              issueDetail.reviewers)
    IN  IF jira.fields.reviewers = "" THEN w
        ELSE Rest(RequestReviewers(w, F,
                      ToAddToPr(jira, issueDetail.reviewers,
                                payload.requested_reviewers, payload.user)))

\* lines 333-379
SyncReviewers(w, F, jira, detectedIssue, payload, issueDetail) ==
    IF jira.fields.reviewers = "" THEN w
    ELSE PutReviewers(RequestReviewers(w, F,
                          ToAddToPr(jira, issueDetail.reviewers,
                                    payload.requested_reviewers, payload.user)),
                      F, detectedIssue,
                      ToAddToJira(jira, issueDetail.reviewers, payload.requested_reviewers),
                      issueDetail.reviewers)

\* lines 298-379, md being markdownToJira's result
SyncWithBody(w, F, jira, detectedIssue, prTitleText, payload, issueDetail, md) ==
    LET Rest(v) ==
            IF v.thrown THEN v
            ELSE SyncReviewers(v, F, jira, detectedIssue, payload, issueDetail)
    IN  IF md.threw THEN Throw(w)
        ELSE Rest(SyncAssignee(UpsertComment(w, F, jira, detectedIssue,
                                             CommentBody(prTitleText, md.text),
                                             issueDetail),
                               F, jira, detectedIssue, payload, issueDetail))

\* SyncDetail that does not ask whether the detail of the issue was fetched
SyncDetailWithoutDetail(w, F, jira, detectedIssue, prTitleText, payload, issueDetail) ==
    IF detectedIssue \in JiraIssues
    THEN IF payload.body.isNull THEN Throw(w)
         ELSE SyncWithBody(w, F, jira, detectedIssue, prTitleText, payload, issueDetail,
                  markdownToJira(join(SelectSeq(payload.body.lines, IsNotHtmlComment))))
    ELSE w

\* lines 288-380; prBody.split of a null body throws
SyncDetail(w, F, jira, detectedIssue, prTitleText, payload, issueDetail) ==
    IF detectedIssue # <<>> /\ issueDetail.found
    THEN IF payload.body.isNull THEN Throw(w)
         ELSE SyncWithBody(w, F, jira, detectedIssue, prTitleText, payload, issueDetail,
                  markdownToJira(join(SelectSeq(payload.body.lines, IsNotHtmlComment))))
    ELSE w

\* Reconcile with the detail sync before the title reconciliation
ReconcileSyncFirst(w, F, jira, payload, parsed, existingIssue, issueDetail) ==
    LET Rest(v) ==
            IF v.thrown THEN v
            ELSE ReconcileTitle(v, F, jira, parsed.issue, parsed.description,
                                existingIssue, issueDetail)
    IN  Rest(SyncDetail(w, F, jira, parsed.issue, parsed.description, payload,
                        issueDetail))

\* lines 228-380
Reconcile(w, F, jira, payload, parsed, existingIssue, issueDetail) ==
    LET Rest(v) ==
            IF v.thrown THEN v
            ELSE SyncDetail(v, F, jira, parsed.issue, parsed.description, payload,
                            issueDetail)
    IN  Rest(ReconcileTitle(w, F, jira, parsed.issue, parsed.description, existingIssue,
                            issueDetail))

\* the issueDetail of line 226, w being the state after the GET
DetailAfter(w, issue) == IF LastOk(w) THEN IssueFields(w, issue) ELSE NoDetail

\* lines 228-380, w being the state after the GET of line 226
WithIssueDetail(w, F, jira, payload, parsed, existingIssue) ==
    Reconcile(w, F, jira, payload, parsed, existingIssue, DetailAfter(w, parsed.issue))

\* lines 226-380
WithExistingIssue(w, F, jira, payload, parsed, existingIssue) ==
    IF parsed.issue # <<>>
    THEN WithIssueDetail(getIssueDetail(w, F, parsed.issue), F, jira, payload, parsed,
                         existingIssue)
    ELSE Reconcile(w, F, jira, payload, parsed, existingIssue, NoDetail)

\* lines 225-380, parsed being parseTitle's result
WithParsedTitle(w, F, jira, payload, parsed) ==
    LET Rest(v) ==
            IF v.thrown THEN v
            ELSE WithExistingIssue(v, F, jira, payload, parsed, v.cached)
    IN  IF payload.action = "opened"
        THEN WithExistingIssue(w, F, jira, payload, parsed, NullIssue)
        ELSE Rest(getCachedIssue(w, F))

\* lines 216-381, once Jira is known to be configured
OpenedEdited(w, F, jira, payload) ==
    WithParsedTitle(w, F, jira, payload, parseTitle(jira.projectKey, payload.title))

\* lines 198-215
onPullRequestOpenedEdited(w, F, c, payload) ==
    IF payload.action = "edited" /\ ~payload.changes THEN w
    ELSE IF getJira(c).isNull THEN w
    ELSE OpenedEdited(w, F, getJira(c), payload)

(***************************************************************************)
(* The other handlers.                                                     *)
(***************************************************************************)
\* onIssuesOpened that also creates the issue in Jira (the TODO of line 187)
onIssuesOpenedCreatingIssue(w, F, c) ==
    LET Rest(v) == IF v.thrown THEN v ELSE writeComment(v, F, CreateInJiraComment)
    IN  IF getJira(c).isNull THEN w
        ELSE Rest(fetch(w, F, "jira.POST issue", <<>>, <<>>, TRUE))

\* issues.opened (index.ts 180-192)
onIssuesOpened(w, F, c) ==
    IF getJira(c).isNull THEN w ELSE writeComment(w, F, CreateInJiraComment)

\* onPullRequestAssigned without the test of the cached issue (line 401)
onPullRequestAssignedWithoutIssueTest(w, F, c, payload) ==
    LET Rest(v) ==
            IF v.thrown THEN v
            ELSE setAssignee(v, F, getJira(c), v.cached, getPrAssignee(payload))
    IN  IF getPrAssignee(payload) = "" THEN w
        ELSE IF getJira(c).isNull THEN w
        ELSE Rest(getCachedIssue(w, F))

\* pull_request.assigned (index.ts 386-405)
onPullRequestAssigned(w, F, c, payload) ==
    LET Rest(v) ==
            IF v.thrown \/ v.cached = <<>> THEN v
            ELSE setAssignee(v, F, getJira(c), v.cached, getPrAssignee(payload))
    IN  IF getPrAssignee(payload) = "" THEN w
        ELSE IF getJira(c).isNull THEN w
        ELSE Rest(getCachedIssue(w, F))

\* onReviewRequestChanged without the test of fields.reviewers (line 414)
onReviewRequestChangedWithoutFieldTest(w, F, c, payload) ==
    LET Rest(v) ==
            IF v.thrown \/ v.cached = <<>> THEN v
            ELSE setReviewers(v, F, getJira(c), v.cached, payload.requested_reviewers)
    IN  IF getJira(c).isNull THEN w
        ELSE Rest(getCachedIssue(w, F))

\* pull_request.review_requested / review_request_removed (index.ts 410-431)
onReviewRequestChanged(w, F, c, payload) ==
    LET Rest(v) ==
            IF v.thrown \/ v.cached = <<>> THEN v
            ELSE setReviewers(v, F, getJira(c), v.cached, payload.requested_reviewers)
    IN  IF getJira(c).isNull \/ getJira(c).fields.reviewers = "" THEN w
        ELSE Rest(getCachedIssue(w, F))

(***************************************************************************)
(* Probot's dispatch: the handler registered for the event.                *)
(***************************************************************************)
handle(w, F, c, payload) ==
    CASE payload.name = "issues" -> onIssuesOpened(w, F, c)
      [] payload.name = "pull_request" /\ payload.action \in {"opened", "edited"} ->
             onPullRequestOpenedEdited(w, F, c, payload)
      [] payload.name = "pull_request" /\ payload.action = "assigned" ->
             onPullRequestAssigned(w, F, c, payload)
      [] OTHER -> onReviewRequestChanged(w, F, c, payload)

(***************************************************************************)
(* The state machine.  A run fixes a configuration and what the users do   *)
(* (env); an event is delivered when no handler is running, and its        *)
(* handler runs to its end in the same step.  AwaitNextEvent drops the     *)
(* record of the invocation.                                               *)
(***************************************************************************)
Max(S) == CHOOSE x \in S : \A y \in S : y <= x

\* the sets of at most k further positions, beyond those of F, at which a call
\* of the invocation can be made to fail: a position is one of a call the
\* invocation issues when the calls at the positions chosen before it fail
RECURSIVE FailChoices(_, _, _, _, _)
FailChoices(w, c, payload, F, k) ==
    IF k = 0 THEN {F}
    ELSE LET n == Len(handle(w, F, c, payload).calls)
             from == IF F = {} THEN 1 ELSE Max(F) + 1
         IN  {F} \cup UNION {FailChoices(w, c, payload, F \cup {i}, k - 1) : i \in from..n}

Payload(name, action, changes, title, body, assignee, reviewers) ==
    [name |-> name, action |-> action, changes |-> changes, title |-> title,
     body |-> body, assignee |-> assignee, requested_reviewers |-> reviewers,
     user |-> PrUser, fail |-> {}]

NoEvent == Payload("", "", FALSE, <<>>, NullBody, "", {})

\* what the users of a run do: the titles and bodies they give the PR, the
\* assignees the assigned events carry, the reviewers they request
LinkEnv   == [titles |-> Titles, bodies |-> Bodies, logins |-> {}, reviewers |-> {}]
AssignEnv == [titles |-> {TitleFix, TitleGone, TitleNone}, bodies |-> {BodyText},
              logins |-> {""} \cup (Logins \ {PrUser}), reviewers |-> {}]
ReviewEnv == [titles |-> {TitleFix, TitleNone}, bodies |-> {BodyText},
              logins |-> {}, reviewers |-> ReviewerLogins]
SmallEnv  == [titles |-> {TitleFix}, bodies |-> {BodyText},
              logins |-> {"b"}, reviewers |-> {"b"}]

NoFieldCfg == [FullCfg EXCEPT !.fields = [reviewers |-> ""]]
NoHostCfg  == [FullCfg EXCEPT !.host = ""]
NoKeyCfg   == [FullCfg EXCEPT !.projectKey = <<>>]

Scenarios == { <<NoFieldCfg, LinkEnv>>, <<FullCfg, AssignEnv>>, <<FullCfg, ReviewEnv>>,
               <<NoFieldCfg, ReviewEnv>>, <<NoFieldCfg, SmallEnv>>,
               <<NoHostCfg, SmallEnv>>, <<NoKeyCfg, SmallEnv>> }

OtherLink == [self |-> 1, url |-> OtherUrl, title |-> LinkTitle("2", <<"x">>)]

SomeonesComment ==
    [id |-> 1, author |-> "someone",
     body |-> [head |-> CommentPrefix, prId |-> "", text |-> <<>>, url |-> "",
               rest |-> <<>>]]
BotsOtherComment ==
    [id |-> 2, author |-> JiraUser,
     body |-> [head |-> "Build passed", prId |-> "", text |-> <<>>, url |-> "",
               rest |-> <<>>]]

\* returned while no function has been applied on its own; <<r>> after an
\* application that returned r
NotApplied == <<>>

Init ==
    /\ \E sc \in Scenarios : cfg = sc[1] /\ env = sc[2]
    /\ cachedIssue = <<>>
    /\ jiraLinks = [k \in JiraIssues |-> IF k = Key1 THEN <<OtherLink>> ELSE <<>>]
    /\ jiraComments = [k \in JiraIssues |->
                          IF k = Key1 THEN <<SomeonesComment, BotsOtherComment>> ELSE <<>>]
    /\ jiraAssignee = [k \in JiraIssues |-> ""]
    /\ jiraReviewers = [k \in JiraIssues |-> IF k = Key1 THEN {"A", "B", "X"} ELSE {"X"}]
    /\ prAssignee = ""
    /\ prReviewers = {}
    /\ calls = <<>>
    /\ thrown = FALSE
    /\ lastEvent = NoEvent
    /\ given = <<>>
    /\ returned = NotApplied
    /\ running = <<>>

Idle == lastEvent.name = ""

\* the state after a handler invocation that ended in w
Handled(w, event) ==
    /\ cachedIssue' = w.cached
    /\ jiraLinks' = w.links
    /\ jiraComments' = w.comments
    /\ jiraAssignee' = w.assignee
    /\ jiraReviewers' = w.reviewers
    /\ prAssignee' = w.prAssignee
    /\ prReviewers' = w.prReviewers
    /\ calls' = w.calls
    /\ thrown' = w.thrown
    /\ lastEvent' = event
    /\ UNCHANGED <<cfg, env, given, returned, running>>

\* the event is delivered and handled, some of the handler's calls failing
Deliver(w, payload) ==
    /\ Idle
    /\ \E F \in FailChoices(w, cfg, payload, {}, MaxFail) :
           Handled(handle(w, F, cfg, payload), [payload EXCEPT !.fail = F])

IssuesOpened ==
    Deliver(World, Payload("issues", "opened", FALSE, <<>>, NullBody, prAssignee,
                           prReviewers))

PullRequestOpened ==
    \E title \in env.titles, body \in env.bodies :
        Deliver(World, Payload("pull_request", "opened", FALSE, title, body,
                               prAssignee, prReviewers))

\* changes: the edit changed the title or the body
PullRequestEdited ==
    \E changes \in BOOLEAN, title \in env.titles, body \in env.bodies :
        Deliver(World, Payload("pull_request", "edited", changes, title, body,
                               prAssignee, prReviewers))

\* login: the assignee the payload carries, "" for none
PullRequestAssigned ==
    \E login \in env.logins :
        Deliver([World EXCEPT !.prAssignee = login],
                Payload("pull_request", "assigned", FALSE, <<>>, NullBody, login,
                        prReviewers))

ReviewRequested ==
    \E r \in env.reviewers \ prReviewers :
        Deliver([World EXCEPT !.prReviewers = @ \cup {r}],
                Payload("pull_request", "review_requested", FALSE, <<>>, NullBody,
                        prAssignee, prReviewers \cup {r}))

ReviewRequestRemoved ==
    \E r \in prReviewers :
        Deliver([World EXCEPT !.prReviewers = @ \ {r}],
                Payload("pull_request", "review_request_removed", FALSE, <<>>,
                        NullBody, prAssignee, prReviewers \ {r}))

AwaitNextEvent ==
    /\ ~Idle
    /\ calls' = <<>>
    /\ thrown' = FALSE
    /\ lastEvent' = NoEvent
    /\ UNCHANGED <<cfg, env, cachedIssue, jiraLinks, jiraComments, jiraAssignee,
                   jiraReviewers, prAssignee, prReviewers, given, returned, running>>

Next ==
    \/ IssuesOpened
    \/ PullRequestOpened
    \/ PullRequestEdited
    \/ PullRequestAssigned
    \/ ReviewRequested
    \/ ReviewRequestRemoved
    \/ AwaitNextEvent

Spec == Init /\ [][Next]_vars

(***************************************************************************)
(* What the properties below observe: the calls of the last invocation.    *)
(***************************************************************************)
CallsOf(op) == SelectSeq(calls, LAMBDA c : c.op = op)

CommentsPosted(text) ==
    SelectSeq(calls, LAMBDA c : c.op = "github.issues.createComment" /\ c.arg.text = text)

\* the calls that change GitHub, the Association or Jira
WriteOps ==
    {"github.issues.createComment", "github.issues.addAssignees",
     "github.pulls.requestReviewers", "metadata.set", "jira.DELETE remotelink",
     "jira.POST remotelink", "jira.PUT comment", "jira.POST comment",
     "jira.PUT issue/assignee", "jira.PUT issue"}

\* the comments about the outcome of linking
OutcomeTexts == {LinkedComment(<<>>).text, NotFoundComment(<<>>).text,
                 NoIssueComment(<<>>).text}

IsOutcomeComment(c) ==
    c.op = "github.issues.createComment" /\ c.arg.text \in OutcomeTexts

\* the issue key the title of an event yields
Detected(event) == parseTitle(cfg.projectKey, event.title).issue

IsOpenedOrEdited(event) ==
    event.name = "pull_request" /\ event.action \in {"opened", "edited"}

IsEdit(event) == event.name = "pull_request" /\ event.action = "edited" /\ event.changes

(***************************************************************************)
(* C1                                                                      *)
(***************************************************************************)
\* C1: when the configuration lacks host or projectKey, no handler issues a
\* call: no tracker call, no GitHub write, no Association read or write; and
\* none ends with an exception
C1_UnconfiguredIssuesNoCall ==
    (cfg.host = "" \/ cfg.projectKey = <<>>) => calls = <<>> /\ ~thrown

\* a pull request was opened in a repository whose jira.yml has a host and no
\* projectKey
C1_Witness ==
    /\ cfg.host # "" /\ cfg.projectKey = <<>>
    /\ lastEvent.name = "pull_request" /\ lastEvent.action = "opened"
    /\ calls = <<>>

(***************************************************************************)
(* C2                                                                      *)
(***************************************************************************)
\* the step handles an edit whose title yields the cached issue key
EditedWithCachedKey == IsEdit(lastEvent') /\ Detected(lastEvent') = cachedIssue

\* C2 as stated: an edit whose title yields the cached key issues no external
\* write at all
C2_Original ==
    [][EditedWithCachedKey =>
          \A i \in DOMAIN calls' : calls'[i].op \notin WriteOps]_vars

\* C2: an edit whose title yields the cached key deletes and creates no remote
\* link, posts no comment about the outcome of linking and does not write the
\* Association; it issues no write at all when no detail of the issue was
\* fetched (no key in the title, or the lookup failed).  The detail sync of a
\* found issue still writes.
C2_EditedWithCachedKey ==
    [][EditedWithCachedKey =>
          /\ \A i \in DOMAIN calls' :
                 /\ calls'[i].op \notin {"jira.DELETE remotelink", "jira.POST remotelink",
                                        "metadata.set"}
                 /\ ~IsOutcomeComment(calls'[i])
          /\ (~\E i \in DOMAIN calls' : calls'[i].op = "jira.GET issue" /\ calls'[i].ok)
                 => \A i \in DOMAIN calls' : calls'[i].op \notin WriteOps]_vars

\* an edit that kept the key of a found issue was handled: the Association was
\* not written, the comment in Jira was
C2_Witness ==
    /\ IsEdit(lastEvent)
    /\ Detected(lastEvent) = cachedIssue /\ cachedIssue \in JiraIssues
    /\ CallsOf("metadata.set") = <<>>
    /\ \E i \in DOMAIN calls : calls[i].op = "metadata.get" /\ calls[i].ok
    /\ \E i \in DOMAIN calls :
           calls[i].op \in {"jira.PUT comment", "jira.POST comment"} /\ calls[i].ok

(***************************************************************************)
(* C3                                                                      *)
(***************************************************************************)
\* the remote links of issue k whose URL is the pull request's
PrLinks(k) == {i \in DOMAIN jiraLinks[k] : jiraLinks[k][i].url = PrUrl}

\* C3: after any sequence of handler invocations, every issue has at most one
\* remote link whose URL is the pull request's
C3_AtMostOneLinkPerIssue == \A k \in JiraIssues : Cardinality(PrLinks(k)) <= 1

\* an opened or edited event was handled for an issue that already had the
\* link: the links were read and none was created
C3_Witness ==
    /\ IsOpenedOrEdited(lastEvent)
    /\ Detected(lastEvent) \in JiraIssues
    /\ \E i \in DOMAIN calls :
           /\ calls[i].op = "jira.GET remotelink" /\ calls[i].ok
           /\ calls[i].issue = Detected(lastEvent)
    /\ CallsOf("jira.POST remotelink") = <<>>
    /\ Cardinality(PrLinks(Detected(lastEvent))) = 1

(***************************************************************************)
(* C4                                                                      *)
(***************************************************************************)
\* every issue has at most one comment of the service account that starts
\* with 'Linked to GitHub PR'
C4_AtMostOneSyncComment ==
    \A k \in JiraIssues : Len(SyncComments(jiraComments[k], JiraUser)) <= 1

\* a handler creates the comment only on an issue that has none, and updates
\* the one the issue has
C4_UpdateInPlace ==
    \A i \in DOMAIN calls' :
        /\ calls'[i].op = "jira.POST comment" =>
               SyncComments(jiraComments[calls'[i].issue], JiraUser) = <<>>
        /\ calls'[i].op = "jira.PUT comment" =>
               /\ SyncComments(jiraComments[calls'[i].issue], JiraUser) # <<>>
               /\ calls'[i].arg.id =
                      Head(SyncComments(jiraComments[calls'[i].issue], JiraUser)).id
               /\ calls'[i].ok => Len(jiraComments'[calls'[i].issue]) =
                                      Len(jiraComments[calls'[i].issue])

\* C4: after any sequence of opened/edited invocations an issue has at most one
\* comment of the service account starting with 'Linked to GitHub PR'; an
\* invocation updates the existing comment in place (PUT) and creates one
\* (POST) only when the issue has none
C4_OneSyncCommentUpdatedInPlace ==
    []C4_AtMostOneSyncComment /\ [][C4_UpdateInPlace]_vars

\* a later invocation for an issue that has the comment updated it: the issue,
\* which also has a comment of another author with the prefix and one of the
\* service account without it, still has one
C4_Witness ==
    /\ IsOpenedOrEdited(lastEvent)
    /\ Detected(lastEvent) = Key1
    /\ \E i \in DOMAIN calls : calls[i].op = "jira.PUT comment" /\ calls[i].ok
    /\ Len(SyncComments(jiraComments[Key1], JiraUser)) = 1
    /\ Len(jiraComments[Key1]) = 3

(***************************************************************************)
(* C5                                                                      *)
(***************************************************************************)
\* the detail lookup of the invocation failed
LookupFailed(cs) == \E i \in DOMAIN cs : cs[i].op = "jira.GET issue" /\ ~cs[i].ok

\* the step handles an opened or edited event whose title yields a key, and
\* the lookup of the issue's detail fails
UnknownIssueStep == IsOpenedOrEdited(lastEvent') /\ LookupFailed(calls')

\* existingIssue of the invocation a step makes
ExistingIssue == IF lastEvent'.action = "opened" THEN NullIssue ELSE cachedIssue

\* C5 as stated: when the detail lookup fails the handler posts exactly one
\* 'could not be found' comment, creates no remote link and does not write the
\* key to the Association
C5_Original ==
    [][UnknownIssueStep =>
          /\ Len(SelectSeq(calls', LAMBDA c :
                     c.op = "github.issues.createComment"
                         /\ c.arg = NotFoundComment(Detected(lastEvent')))) = 1
          /\ \A i \in DOMAIN calls' : calls'[i].op # "jira.POST remotelink"
          /\ \A i \in DOMAIN calls' :
                 ~(calls'[i].op = "metadata.set" /\ calls'[i].arg = Detected(lastEvent'))
          /\ cachedIssue # Detected(lastEvent') => cachedIssue' # Detected(lastEvent')]_vars

\* C5: when the detail lookup fails and the key differs from the cached one
\* (always, for opened) the handler posts exactly one 'could not be found'
\* comment, creates no remote link and, the comment posted, writes the
\* unresolvable key to the Association; when the key is the cached one it
\* writes nothing
C5_UnknownIssue ==
    [][UnknownIssueStep =>
          /\ \A i \in DOMAIN calls' : calls'[i].op # "jira.POST remotelink"
          /\ IF Detected(lastEvent') = ExistingIssue
             THEN \A i \in DOMAIN calls' : calls'[i].op \notin WriteOps
             ELSE /\ Len(SelectSeq(calls', LAMBDA c :
                             c.op = "github.issues.createComment")) = 1
                  /\ \E i \in DOMAIN calls' :
                         /\ calls'[i].op = "github.issues.createComment"
                         /\ calls'[i].arg = NotFoundComment(Detected(lastEvent'))
                         /\ IF calls'[i].ok
                            THEN /\ i + 1 = Len(calls')
                                 /\ calls'[i + 1].op = "metadata.set"
                                 /\ calls'[i + 1].arg = Detected(lastEvent')
                                 /\ calls'[i + 1].ok =>
                                        cachedIssue' = Detected(lastEvent')
                            ELSE i = Len(calls') /\ cachedIssue' = cachedIssue]_vars

\* a pull request titled with a key Jira does not know was opened: the comment
\* was posted and the key is the Association now
C5_Witness ==
    /\ lastEvent.name = "pull_request" /\ lastEvent.action = "opened"
    /\ Detected(lastEvent) = Key9
    /\ LookupFailed(calls)
    /\ Len(CommentsPosted(NotFoundComment(Key9).text)) = 1
    /\ \E i \in DOMAIN calls :
           calls[i].op = "metadata.set" /\ calls[i].arg = Key9 /\ calls[i].ok
    /\ cachedIssue = Key9

(***************************************************************************)
(* C6                                                                      *)
(***************************************************************************)
IsConfigured == cfg.host # "" /\ cfg.projectKey # <<>>

\* the outcomes of linking: the issue was found and the link created, the
\* issue was not found, the title has no key
NewlyLinked == \E i \in DOMAIN calls : calls[i].op = "jira.POST remotelink" /\ calls[i].ok
NotFound == LookupFailed(calls)
NoKey == Detected(lastEvent) = <<>>

\* the comment that tells the outcome
OutcomeComment ==
    IF NoKey THEN NoIssueComment(cfg.projectKey)
    ELSE IF NotFound THEN NotFoundComment(Detected(lastEvent))
    ELSE LinkedComment(Detected(lastEvent))

\* a pull request was opened in a configured repository, no call of the
\* handler failed but a lookup of an issue Jira does not have, and the
\* invocation ended in one of the three outcomes
OpenedWithOutcome ==
    /\ lastEvent.name = "pull_request" /\ lastEvent.action = "opened"
    /\ IsConfigured
    /\ lastEvent.fail = {}
    /\ NewlyLinked \/ NotFound \/ NoKey

\* the Association is written once, with the detected key
OneAssociationWrite ==
    /\ Len(CallsOf("metadata.set")) = 1
    /\ CallsOf("metadata.set")[1].arg = Detected(lastEvent)
    /\ cachedIssue = Detected(lastEvent)

ManualTexts == {CouldNotUpdateAssigneeComment(<<>>, "").text,
                AssigneeFailedComment(<<>>).text, ReviewersFailedComment(<<>>).text}

\* call i is an exact lookup that failed, and the search after it answered
\* with no user or with several
AbortedLookup(i) ==
    /\ calls[i].op = "jira.GET user" /\ ~calls[i].ok
    /\ i < Len(calls)
    /\ calls[i + 1].op = "jira.GET user/search" /\ calls[i + 1].ok
    /\ Len(UserSearch(calls[i + 1].arg)) # 1

\* C7: when the exact lookup fails and the search returns 0 or 2+ users,
\* setAssignee posts exactly one 'Please update manually' comment, right after
\* the search, and issues no assignee PUT
C7_AmbiguousUserAborts ==
    \A i \in DOMAIN calls :
        AbortedLookup(i) =>
            /\ CallsOf("jira.PUT issue/assignee") = <<>>
            /\ i + 2 <= Len(calls)
            /\ calls[i + 2].op = "github.issues.createComment"
            /\ calls[i + 2].arg.text = CouldNotUpdateAssigneeComment(<<>>, "").text
            /\ Len(SelectSeq(calls, LAMBDA c :
                       c.op = "github.issues.createComment"
                           /\ c.arg.text \in ManualTexts)) = 1

\* the search for the assigned login answered with two users: the comment was
\* posted
C7_Witness ==
    \E i \in DOMAIN calls :
        /\ AbortedLookup(i)
        /\ Len(UserSearch(calls[i + 1].arg)) = 2
        /\ calls[i + 2].op = "github.issues.createComment" /\ calls[i + 2].ok

(***************************************************************************)
(* C8                                                                      *)
(***************************************************************************)
\* an assigned event with a login was handled in a configured repository, and
\* the Association it read is not empty
AssignedWithAssociation ==
    /\ lastEvent.name = "pull_request" /\ lastEvent.action = "assigned"
    /\ lastEvent.assignee # ""
    /\ IsConfigured
    /\ calls # <<>> /\ calls[1].op = "metadata.get" /\ calls[1].ok
    /\ cachedIssue # <<>>

\* the login's image under the userMap, the login itself when it has none
ForwardMapped(login) ==
    IF \E i \in DOMAIN cfg.userMap : cfg.userMap[i][1] = login
    THEN cfg.userMap[CHOOSE i \in DOMAIN cfg.userMap : cfg.userMap[i][1] = login][2]
    ELSE login

\* the position of the call that resolved the login to one user, 0 when none did
ResolvedAt ==
    IF Len(calls) >= 2 /\ calls[2].op = "jira.GET user" /\ calls[2].ok THEN 2
    ELSE IF /\ Len(calls) >= 3
            /\ calls[3].op = "jira.GET user/search" /\ calls[3].ok
            /\ Len(UserSearch(calls[3].arg)) = 1
    THEN 3
    ELSE 0

ResolvedUser ==
    IF ResolvedAt = 2 THEN CHOOSE u \in JiraUsers : u.name = calls[2].arg
    ELSE UserSearch(calls[3].arg)[1]

\* the exact lookup comes first, for the forward-mapped login, and the search
\* only after it failed
ExactThenSearch ==
    /\ Len(calls) >= 2
    /\ calls[2].op = "jira.GET user" /\ calls[2].arg = ForwardMapped(lastEvent.assignee)
    /\ Len(CallsOf("jira.GET user")) = 1
    /\ IF calls[2].ok THEN CallsOf("jira.GET user/search") = <<>>
       ELSE /\ Len(calls) >= 3
            /\ calls[3].op = "jira.GET user/search"
            /\ calls[3].arg = ForwardMapped(lastEvent.assignee)
            /\ Len(CallsOf("jira.GET user/search")) = 1

\* one PUT of the resolved user for the cached issue, right after the lookup
OneAssigneePut ==
    /\ Len(CallsOf("jira.PUT issue/assignee")) = 1
    /\ Len(calls) > ResolvedAt
    /\ calls[ResolvedAt + 1].op = "jira.PUT issue/assignee"
    /\ calls[ResolvedAt + 1].issue = cachedIssue
    /\ calls[ResolvedAt + 1].arg = ResolvedUser

\* C8 as stated: when the login resolves to one user, one PUT for the cached
\* issue is issued and followed by one confirmation comment naming the user
C8_Original ==
    (AssignedWithAssociation /\ lastEvent.fail = {}) =>
        /\ ExactThenSearch
        /\ ResolvedAt # 0 =>
               /\ OneAssigneePut
               /\ Len(calls) = ResolvedAt + 2
               /\ calls[ResolvedAt + 2].op = "github.issues.createComment"
               /\ calls[ResolvedAt + 2].arg =
                      AssignedComment(cachedIssue, ResolvedUser.displayName)

\* what follows the PUT at position p: the confirmation naming the user when
\* the PUT succeeded, the warning that the update failed when it did not; the
\* warning also follows a confirmation that could not be posted
CommentsAfterPut(p) ==
    /\ Len(calls) > p
    /\ calls[p + 1].op = "github.issues.createComment"
    /\ \A i \in DOMAIN calls : i > p => calls[i].op = "github.issues.createComment"
    /\ IF calls[p].ok
       THEN /\ calls[p + 1].arg = AssignedComment(cachedIssue, ResolvedUser.displayName)
            /\ IF calls[p + 1].ok THEN Len(calls) = p + 1
               ELSE /\ Len(calls) = p + 2
                    /\ calls[p + 2].arg = AssigneeFailedComment(cachedIssue)
       ELSE /\ calls[p + 1].arg = AssigneeFailedComment(cachedIssue)
            /\ Len(calls) = p + 1

\* C8: on assigned with a non-empty Association the login is forward-mapped,
\* looked up exactly first and searched only when that fails; when it resolves
\* to one user, one PUT for the cached issue is issued; a PUT that succeeded
\* is followed by one confirmation comment naming the user, a PUT that failed
\* by the warning that the update failed
C8_AssignedResolved ==
    AssignedWithAssociation =>
        /\ ExactThenSearch
        /\ ResolvedAt # 0 =>
               /\ OneAssigneePut
               /\ CommentsAfterPut(ResolvedAt + 1)
               /\ calls[ResolvedAt + 1].ok =>
                      jiraAssignee[cachedIssue] = ResolvedUser.name

\* a mapped login was assigned: the PUT for the cached issue succeeded and the
\* confirmation names the Jira user
C8_Witness ==
    /\ AssignedWithAssociation
    /\ lastEvent.assignee = "b"
    /\ ResolvedAt = 2
    /\ calls[3].op = "jira.PUT issue/assignee" /\ calls[3].ok
    /\ calls[4].arg = AssignedComment(cachedIssue, UserB.displayName) /\ calls[4].ok
    /\ jiraAssignee[cachedIssue] = "B"

(***************************************************************************)
(* C9                                                                      *)
(***************************************************************************)
\* a change of the requested reviewers was handled with the reviewers field
\* configured, and the Association read is not empty
ReviewersChangedWithAssociation ==
    /\ lastEvent.name = "pull_request"
    /\ lastEvent.action \in {"review_requested", "review_request_removed"}
    /\ IsConfigured /\ cfg.fields.reviewers # ""
    /\ calls # <<>> /\ calls[1].op = "metadata.get" /\ calls[1].ok
    /\ cachedIssue # <<>>

\* the userMap images of logins; a login without an entry has none
Images(logins) ==
    {cfg.userMap[i][2] : i \in {j \in DOMAIN cfg.userMap : cfg.userMap[j][1] \in logins}}

ReviewerSyncStep ==
    /\ IsOpenedOrEdited(lastEvent')
    /\ \E i \in DOMAIN calls' : calls'[i].op = "jira.PUT issue"

\* the logins the tracker reviewers J map back to
ReverseMapped(J) == {toGitHubUser(cfg.userMap, j) : j \in J} \ {""}

\* the reviewers the sync requests on the PR: those of the tracker, mapped
\* back, that are not requested yet and are not the author
ToRequest(J, P) == (ReverseMapped(J) \ P) \ {lastEvent'.user}

\* the sync of a step, J and P being the reviewers of the tracker and of the
\* PR before it
ReviewerSync(k, J, P) ==
    /\ P = lastEvent'.requested_reviewers
    /\ IF ToRequest(J, P) = {}
       THEN \A i \in DOMAIN calls' : calls'[i].op # "github.pulls.requestReviewers"
       ELSE \E i \in DOMAIN calls' :
               /\ calls'[i].op = "github.pulls.requestReviewers"
               /\ calls'[i].arg = ToRequest(J, P)
               /\ \A j \in DOMAIN calls' :
                      calls'[j].op = "github.pulls.requestReviewers" => j = i
               /\ prReviewers' = IF calls'[i].ok THEN P \cup ToRequest(J, P) ELSE P
    /\ \E i \in DOMAIN calls' :
           /\ calls'[i].op = "jira.PUT issue"
           /\ calls'[i].issue = k
           /\ calls'[i].arg = J \cup Images(P)
           /\ \A j \in DOMAIN calls' : calls'[j].op = "jira.PUT issue" => j = i
           /\ jiraReviewers'[k] = IF calls'[i].ok THEN J \cup Images(P) ELSE J
    /\ P \subseteq prReviewers'
    /\ J \subseteq jiraReviewers'[k]
    /\ (\A i \in DOMAIN calls' :
            calls'[i].op \in {"github.pulls.requestReviewers", "jira.PUT issue"}
                => calls'[i].ok)
           => /\ \A j \in J :
                     toGitHubUser(cfg.userMap, j) \notin {"", lastEvent'.user}
                         => toGitHubUser(cfg.userMap, j) \in prReviewers'
              /\ \A n \in Images(P) : n \in jiraReviewers'[k]

\* C10: the reviewer sync of opened/edited requests on the PR exactly the
\* tracker reviewers mapped back to logins, minus those requested already,
\* minus the author; it writes to the tracker the union of the field's value
\* and the images of the PR's reviewers; after both succeed every mappable
\* reviewer of one side is on the other (the author excepted) and no reviewer
\* of either side is removed
C10_ReviewerSyncAdditive ==
    [][ReviewerSyncStep =>
          ReviewerSync(Detected(lastEvent'), jiraReviewers[Detected(lastEvent')],
                       prReviewers)]_vars

\* a PR with the unmapped reviewer c was opened for TEST-1, whose reviewers
\* are A (the author's image), B and X: b was requested, the field is as it
\* was, and the author is no reviewer
C10_Witness ==
    /\ IsOpenedOrEdited(lastEvent)
    /\ Detected(lastEvent) = Key1
    /\ lastEvent.requested_reviewers = {"c"}
    /\ \E i \in DOMAIN calls :
           /\ calls[i].op = "github.pulls.requestReviewers"
           /\ calls[i].arg = {"b"} /\ calls[i].ok
    /\ \E i \in DOMAIN calls : calls[i].op = "jira.PUT issue" /\ calls[i].ok
    /\ prReviewers = {"b", "c"}
    /\ jiraReviewers[Key1] = {"A", "B", "X"}

(***************************************************************************)
(* C11                                                                     *)
(***************************************************************************)
\* a name of the tracker's reviewers field that no userMap entry maps a login to
Unmappable(name) == toGitHubUser(cfg.userMap, name) = ""

\* C11: no handled event (opened, edited, review_requested,
\* review_request_removed) removes from the tracker's reviewers field an
\* entry that cannot be mapped to a login
C11_Original ==
    [][\A k \in JiraIssues : \A x \in jiraReviewers[k] :
           Unmappable(x) => x \in jiraReviewers'[k]]_vars

(***************************************************************************)
(* C12                                                                     *)
(***************************************************************************)
\* the step handles an opened or edited event and reaches the detail sync's
\* first action, the upsert of the tracker comment
DetailSyncStep ==
    /\ IsOpenedOrEdited(lastEvent')
    /\ \E i \in DOMAIN calls' : calls'[i].op \in {"jira.PUT comment", "jira.POST comment"}

\* the assignee sync of the step ran: with no assignee on the PR and a
\* mappable one on the issue it asked GitHub to add the assignee, with an
\* assignee on the PR and none on the issue it looked the Jira user up
AssigneeSyncRan(k) ==
    /\ (lastEvent'.assignee = "" /\ jiraAssignee[k] # "" /\ ~Unmappable(jiraAssignee[k]))
           => \E i \in DOMAIN calls' : calls'[i].op = "github.issues.addAssignees"
    /\ (lastEvent'.assignee # "" /\ jiraAssignee[k] = "")
           => \E i \in DOMAIN calls' : calls'[i].op = "jira.GET user"

\* the reviewer sync of the step ran: it wrote the reviewers field
ReviewerSyncRan ==
    cfg.fields.reviewers # "" => \E i \in DOMAIN calls' : calls'[i].op = "jira.PUT issue"

\* C12: in the opened/edited handler the failure of one detail-sync action
\* (comment upsert, assignee sync in either direction, reviewer sync) never
\* keeps the other actions of the invocation from running
C12_Original ==
    [][DetailSyncStep =>
          AssigneeSyncRan(Detected(lastEvent')) /\ ReviewerSyncRan]_vars

(***************************************************************************)
(* C13                                                                     *)
(***************************************************************************)
\* C13: on issues.opened in a configured repository the handler issues one
\* call, the comment directing the author to Jira: no tracker call, no read
\* or write of the Association
C13_IssuesOpenedOneComment ==
    (lastEvent.name = "issues" /\ IsConfigured) =>
        /\ Len(calls) = 1
        /\ calls[1].op = "github.issues.createComment"
        /\ calls[1].arg = CreateInJiraComment
        /\ thrown = ~calls[1].ok

\* an issue was opened in a configured repository with an Association and a
\* link in place, and the comment was posted
C13_Witness ==
    /\ lastEvent.name = "issues" /\ IsConfigured
    /\ cachedIssue = Key1
    /\ calls = <<[op |-> "github.issues.createComment", issue |-> <<>>,
                  arg |-> CreateInJiraComment, ok |-> TRUE]>>

(***************************************************************************)
(* Functions applied on their own.  The handlers are at rest; a run draws  *)
(* the argument of one function and applies it.                            *)
(***************************************************************************)
handlerVars == <<cfg, env, cachedIssue, jiraLinks, jiraComments, jiraAssignee,
                 jiraReviewers, prAssignee, prReviewers, calls, thrown, lastEvent,
                 running>>

HandlersAtRest ==
    /\ cfg = FullCfg /\ env = SmallEnv
    /\ cachedIssue = <<>>
    /\ jiraLinks = [k \in JiraIssues |-> <<>>]
    /\ jiraComments = [k \in JiraIssues |-> <<>>]
    /\ jiraAssignee = [k \in JiraIssues |-> ""]
    /\ jiraReviewers = [k \in JiraIssues |-> {}]
    /\ prAssignee = "" /\ prReviewers = {}
    /\ calls = <<>> /\ thrown = FALSE /\ lastEvent = NoEvent
    /\ running = <<>>

\* the sequences over S of length n at most, no two elements with the same
\* first component (the keys of an object are distinct)
RECURSIVE EntriesUpTo(_, _)
EntriesUpTo(S, n) ==
    IF n = 0 THEN {<<>>}
    ELSE EntriesUpTo(S, n - 1) \cup
         {Append(m, e) : m \in {x \in EntriesUpTo(S, n - 1) : Len(x) = n - 1},
                         e \in S}

DistinctKeys(m) == \A i, j \in DOMAIN m : m[i][1] = m[j][1] => i = j

\* a userMap has at most this many entries
MaxMap == 2

\* logins and Jira names of the userMaps drawn; "a" and "b" are both
MapLogins == {"a", "b", "c"}
MapNames == {"A", "a", "b"}
UserMaps == {m \in EntriesUpTo(MapLogins \X MapNames, MaxMap) : DistinctKeys(m)}
Identities == {"A", "a", "b", "c", "X"}

InitToGitHubUser ==
    /\ HandlersAtRest
    /\ given \in [userMap : UserMaps, jiraUser : Identities]
    /\ returned = NotApplied

ApplyToGitHubUser ==
    /\ returned = NotApplied
    /\ returned' = <<toGitHubUser(given.userMap, given.jiraUser)>>
    /\ UNCHANGED <<given, handlerVars>>

NextToGitHubUser == ApplyToGitHubUser

SpecToGitHubUser == InitToGitHubUser /\ [][NextToGitHubUser]_vars

MaxDigits == 2

RECURSIVE DigitRuns(_)
DigitRuns(n) ==
    IF n = 0 THEN {<<>>}
    ELSE DigitRuns(n - 1) \cup
         {Append(d, c) : d \in {x \in DigitRuns(n - 1) : Len(x) = n - 1}, c \in {"1", "7"}}

TitleLeads   == {<<>>, <<" ">>, <<"[">>, <<" ", "[", "\t">>, <<"[", "[">>, <<"x">>}
TitleLetters == {<<"T", "E", "S", "T">>, <<"t", "e", "S", "t">>, <<"T", "E", "S">>}
TitleDashes  == {<<"-">>, <<>>}
TitleCloses  == {<<>>, <<" ">>, <<"]">>, <<" ", "]", " ">>, <<"x">>}
TitleSeparators == {<<"-">>, <<":">>, <<>>, <<"=">>}
TitleRests   == {<<>>, <<" ">>, <<"x">>, <<" ", "x", " ", "y", " ">>, <<"\n">>,
                 <<"x", "\n">>, <<"x", "\n", "y">>, <<" ", "-", "1">>}

ParseTitleInputs ==
    {l \o k \o d \o n \o c \o s \o r :
        l \in TitleLeads, k \in TitleLetters, d \in TitleDashes,
        n \in DigitRuns(MaxDigits), c \in TitleCloses, s \in TitleSeparators,
        r \in TitleRests}

InitParseTitle ==
    /\ HandlersAtRest
    /\ given \in ParseTitleInputs
    /\ returned = NotApplied

ApplyParseTitle ==
    /\ returned = NotApplied
    /\ returned' = <<parseTitle(getJira(cfg).projectKey, given)>>
    /\ UNCHANGED <<given, handlerVars>>

NextParseTitle == ApplyParseTitle

SpecParseTitle == InitParseTitle /\ [][NextParseTitle]_vars

(***************************************************************************)
(* C15                                                                     *)
(***************************************************************************)
\* s[from..to] is spaces with at most one c among them: \s*c?\s*
SpacesAround(s, from, to, c) ==
    /\ \A i \in from..to : IsSpace(s[i]) \/ s[i] = c
    /\ \A i, j \in from..to : (s[i] = c /\ s[j] = c) => i = j

\* ^\s*\[?\s*(KEY-\d+ : the key is s[k1..k2]
KeySpan(s, k1, k2) ==
    /\ SpacesAround(s, 1, k1 - 1, "[")
    /\ k2 - k1 > Len(ProjectKey)
    /\ \A i \in 1..Len(ProjectKey) :
           s[k1 + i - 1] \in {ProjectKey[i], LowerCase[CHOOSE n \in 1..26 :
                                                      UpperCase[n] = ProjectKey[i]]}
    /\ s[k1 + Len(ProjectKey)] = "-"
    /\ \A i \in (k1 + Len(ProjectKey) + 1)..k2 : s[i] \in Digits

\* )\s*\]?\s*(?:-|:) : the separator is s[p]
SeparatorAt(s, k2, p) ==
    /\ SpacesAround(s, k2 + 1, p - 1, "]")
    /\ s[p] \in {"-", ":"}

\* \s*(.+)\s*$ : the remainder is s[r1..r2]
RemainderSpan(s, p, r1, r2) ==
    /\ \A i \in (p + 1)..(r1 - 1) : IsSpace(s[i])
    /\ \A i \in r1..r2 : s[i] \notin {"\n", "\r"}
    /\ \A i \in (r2 + 1)..Len(s) : IsSpace(s[i])

\* the anchored pattern matches s
PatternMatches(s) ==
    \E k1 \in 1..Len(s) : \E k2 \in (k1 + 1)..Len(s) :
        /\ KeySpan(s, k1, k2)
        /\ \E p \in (k2 + 1)..Len(s) :
               /\ SeparatorAt(s, k2, p)
               /\ \E r1 \in (p + 1)..Len(s) : \E r2 \in r1..Len(s) :
                      RemainderSpan(s, p, r1, r2)

\* the result for a split: the key in upper case as PROJECT-digits, and the
\* remainder, which no other remainder of the pattern precedes in the order
\* of the pattern's choices (leading spaces skipped first, then the longest)
ResultOfSplit(s, k1, k2, p, r1, r2) ==
    /\ returned[1].issue = ProjectKey \o <<"-">> \o Slice(s, k1 + Len(ProjectKey) + 1, k2)
    /\ returned[1].description = Slice(s, r1, r2)
    /\ \A q1 \in (p + 1)..Len(s) : \A q2 \in q1..Len(s) :
           RemainderSpan(s, p, q1, q2) => q1 < r1 \/ (q1 = r1 /\ q2 <= r2)

\* C15: for a title the anchored pattern matches (in any case, bracketed or
\* not, with '-' or ':' as the separator) parseTitle returns the key in upper
\* case, PROJECT-digits, and the remainder the pattern captures; for every
\* other title it returns an empty key and an empty description
C15_ParseTitleTotal ==
    returned # NotApplied =>
        IF PatternMatches(given)
        THEN \E k1 \in 1..Len(given) : \E k2 \in (k1 + 1)..Len(given) :
                 /\ KeySpan(given, k1, k2)
                 /\ \E p \in (k2 + 1)..Len(given) :
                        /\ SeparatorAt(given, k2, p)
                        /\ \E r1 \in (p + 1)..Len(given) : \E r2 \in r1..Len(given) :
                               /\ RemainderSpan(given, p, r1, r2)
                               /\ ResultOfSplit(given, k1, k2, p, r1, r2)
        ELSE returned = <<[issue |-> <<>>, description |-> <<>>]>>

\* a bracketed key in lower case with ':' as the separator
C15_Witness ==
    /\ given = <<" ", "[", "\t", "t", "e", "S", "t", "-", "1", "7", " ", "]", " ", ":",
                 " ", "x", " ", "y", " ">>
    /\ returned = <<[issue |-> <<"T", "E", "S", "T", "-", "1", "7">>,
                   description |-> <<"x", " ", "y", " ">>]>>

\* texts drawn for markdownToJira: at most MaxPieces of these pieces, one
\* behind the other
MaxPieces == 4

OpenJs    == Fence \o <<"j", "s", "\n">>
FenceLine == Fence \o <<"\n">>
TitleLine == <<"#", " ", "T", "i", "t", "l", "e">>
RowLine   == <<"a", "|", "b", "\n">>
SeparatorLine == <<"|", "-", "-", "-", "|", "\n">>
BoldLine  == <<"*", "*", "b", "*", "*", "\n">>
DollarLine == <<"$", "&", "\n">>
PlainLine == <<"x", "\n">>
Pieces == {OpenJs, FenceLine, TitleLine, RowLine, SeparatorLine, BoldLine, DollarLine,
           PlainLine}

RECURSIVE PiecesUpTo(_)
PiecesUpTo(n) ==
    IF n = 0 THEN {<<>>}
    ELSE PiecesUpTo(n - 1) \cup
         {Append(t, p) : t \in {x \in PiecesUpTo(n - 1) : Len(x) = n - 1}, p \in Pieces}

RECURSIVE Flatten(_)
Flatten(pieces) ==
    IF pieces = <<>> THEN <<>> ELSE Head(pieces) \o Flatten(Tail(pieces))

InitMarkdown ==
    /\ HandlersAtRest
    /\ given \in PiecesUpTo(MaxPieces)
    /\ returned = NotApplied

ApplyMarkdownToJira ==
    /\ returned = NotApplied
    /\ returned' = <<markdownToJira(Flatten(given))>>
    /\ UNCHANGED <<given, handlerVars>>

NextMarkdown == ApplyMarkdownToJira

SpecMarkdown == InitMarkdown /\ [][NextMarkdown]_vars

(***************************************************************************)
(* C16                                                                     *)
(***************************************************************************)
\* the pieces of the given text that hold a fence; the odd ones open a code
\* block, which the next one closes
FencePieces == {i \in DOMAIN given : given[i] \in {OpenJs, FenceLine}}

OpensBlock(i) ==
    /\ i \in FencePieces
    /\ Cardinality({j \in FencePieces : j < i}) % 2 = 0
    /\ \E j \in FencePieces : j > i

ClosingPiece(i) == CHOOSE j \in FencePieces : j > i /\ \A k \in FencePieces : k > i => j <= k

\* the block that opens at piece i as Jira shows it: {code[:lang]}, what
\* stands between the fences, {code}
CodeBlockOf(i) ==
    <<"{", "c", "o", "d", "e">> \o (IF given[i] = OpenJs THEN <<":", "j", "s">> ELSE <<>>)
        \o <<"}", "\n">> \o Flatten(SubSeq(given, i + 1, ClosingPiece(i) - 1))
        \o <<"{", "c", "o", "d", "e", "}">>

Contains(text, part) == \E k \in 1..(Len(text) + 1) : StartsWithAt(text, k, part)

\* C16: the content of every fenced code block is in the result as it was
\* written, inside {code[:lang]} and {code}: no later step of the pipeline,
\* the table-header step after the restoration included, changes it
C16_Original ==
    returned # NotApplied =>
        \A i \in DOMAIN given :
            OpensBlock(i) =>
                /\ ~returned[1].threw
                /\ Contains(returned[1].text, CodeBlockOf(i))

(***************************************************************************)
(* C17                                                                     *)
(***************************************************************************)
\* C17 as stated: '# Title' becomes 'h1.Title' and a newline
C17_Original ==
    (returned # NotApplied /\ given = <<TitleLine>>) =>
        returned[1] = [threw |-> FALSE,
                       text |-> <<"h", "1", ".", "T", "i", "t", "l", "e", "\n">>]

\* C17: markdownToJira of the single line '# Title' returns 'h1. Title' and
\* a newline: the blank behind the '#' stays in front of the title
C17_TitleHeading ==
    (returned # NotApplied /\ given = <<TitleLine>>) =>
        returned[1] = [threw |-> FALSE,
                       text |-> <<"h", "1", ".", " ", "T", "i", "t", "l", "e", "\n">>]

\* '# Title' was converted
C17_Witness ==
    /\ given = <<TitleLine>>
    /\ returned # NotApplied
    /\ ~returned[1].threw
    /\ Len(returned[1].text) = 10

(***************************************************************************)
(* C18                                                                     *)
(***************************************************************************)
\* the lines the table step of the given text works on (line 84)
TableStepLines ==
    SplitLines(Restored(ExtractCode(Flatten(given), 1,
                                    [input |-> <<>>, replacementsList |-> <<>>])),
               1, << <<>> >>)

HoldsSeparator(line) == Contains(line, <<"|", "-", "-", "-">>)

RECURSIVE EveryBarDoubled(_)
EveryBarDoubled(line) ==
    IF line = <<>> THEN <<>>
    ELSE IF Head(line) = "|" THEN <<"|", "|">> \o EveryBarDoubled(Tail(line))
    ELSE <<Head(line)>> \o EveryBarDoubled(Tail(line))

\* what the claim says of the lines from the i-th on: the text they leave
RECURSIVE TableStepResult(_, _)
TableStepResult(lines, i) ==
    IF i > Len(lines) THEN <<>>
    ELSE IF HoldsSeparator(lines[i]) THEN TableStepResult(lines, i + 1)
    ELSE (IF i < Len(lines) /\ HoldsSeparator(lines[i + 1])
          THEN EveryBarDoubled(lines[i]) ELSE lines[i])
         \o <<"\n">> \o TableStepResult(lines, i + 1)

\* C18: for every input of the table step, every line with a '|---' cell is
\* absent from the result and the line before it has every '|' doubled; all
\* other lines keep their content and order; every line of the result ends
\* with a newline
C18_Original ==
    returned # NotApplied =>
        returned[1] = [threw |-> FALSE, text |-> TableStepResult(TableStepLines, 1)]

(***************************************************************************)
(* Overlapping invocations of the pull_request.opened / .edited handler    *)
(* (index.ts 198-381) for the same pull request.  An invocation is         *)
(* suspended at each await of an external call; a step here is one call    *)
(* of one invocation with its outcome, and the code up to the next call.   *)
(* running[p] holds where invocation p stands and its local variables.     *)
(* The writes of all invocations are appended to calls, each with the      *)
(* invocation that issued it.  The detail sync of lines 288-380, which     *)
(* reads and writes neither the links nor the metadata, is one step.       *)
(***************************************************************************)
\* the invocations, in the order of their delivery
Invocations == {1, 2}

OverlapTitles == {TitleFix, TitleAdd}

\* the first of the events is the opening of the pull request or an edit,
\* the later ones are edits
OverlapActions(p) == IF p = 1 THEN {"opened", "edited"} ELSE {"edited"}

\* the links of issue k when the PR's metadata holds issue c
LinksWhenCached(k, c) ==
    (IF k = Key1 THEN <<OtherLink>> ELSE <<>>)
        \o (IF k = c THEN <<[self |-> 2, url |-> PrUrl, title |-> LinkTitle(PrId, <<"x">>)]>>
            ELSE <<>>)

\* the description of the pull request
OverlapBody == [isNull |-> FALSE, lines |-> << <<"x">> >>]

Received(action, title) ==
    [pc |-> "received",
     payload |-> Payload("pull_request", action, TRUE, title, OverlapBody, "", {}),
     parsed |-> [issue |-> <<>>, description |-> <<>>],
     existingIssue |-> NullIssue, issueDetail |-> NoDetail, existingLinks |-> <<>>]

InitOverlap ==
    /\ cfg = FullCfg /\ env = SmallEnv
    /\ cachedIssue \in {<<>>, Key1, Key2}
    /\ jiraLinks = [k \in JiraIssues |-> LinksWhenCached(k, cachedIssue)]
    /\ jiraComments = [k \in JiraIssues |-> <<>>]
    /\ jiraAssignee = [k \in JiraIssues |-> ""]
    /\ jiraReviewers = [k \in JiraIssues |-> {}]
    /\ prAssignee = "" /\ prReviewers = {}
    /\ calls = <<>> /\ thrown = FALSE /\ lastEvent = NoEvent
    /\ given = <<>> /\ returned = NotApplied
    /\ running \in [Invocations -> {Received(a, t) : a \in {"opened", "edited"},
                                                      t \in OverlapTitles}]
    /\ \A p \in Invocations : running[p].payload.action \in OverlapActions(p)

\* lines 250-282: where AddNewIssue issues its first call
AddNewPc(r) ==
    IF r.parsed.issue # <<>>
    THEN IF r.issueDetail.found THEN "getLinks" ELSE "commentNotFound"
    ELSE "commentNoIssue"

\* lines 228-232, issueDetail being known
AfterDetailPc(r) ==
    IF r.parsed.issue = r.existingIssue THEN "syncDetail"
    ELSE IF r.existingIssue # NullIssue /\ r.existingIssue # <<>> THEN "getOldLinks"
    ELSE AddNewPc(r)

\* line 226, existingIssue being known
AfterExistingPc(r) ==
    IF r.parsed.issue # <<>> THEN "getIssueDetail" ELSE AfterDetailPc(r)

At(p, pc) == running[p].pc = pc

Goto(p, r, pc) == running' = [running EXCEPT ![p] = [r EXCEPT !.pc = pc]]

\* the calls that ask for a change
IsWrite(op) ==
    op \notin {"metadata.get", "jira.GET issue", "jira.GET remotelink", "jira.GET user",
              "jira.GET user/search"}

\* invocation p issues a call that ends with ok; calls keeps the writes
Issue(p, op, issue, arg, ok) ==
    calls' = IF IsWrite(op)
             THEN Append(calls, [op |-> op, issue |-> issue, arg |-> arg, ok |-> ok,
                                 by |-> p])
             ELSE calls

\* the exception of a failed call leaves the handler
Rejected(p) ==
    /\ Goto(p, running[p], "done")
    /\ thrown' = TRUE

restOfOverlap == <<cfg, env, lastEvent, given, returned>>

\* lines 198-225, up to the first await: the handler of the later event
\* starts after the handler of the earlier one
Receive(p) ==
    /\ At(p, "received")
    /\ \A q \in Invocations : q < p => ~At(q, "received")
    /\ LET r == [running[p] EXCEPT
                     !.parsed = parseTitle(getJira(cfg).projectKey, running[p].payload.title)]
       IN  IF r.payload.action = "edited" /\ ~r.payload.changes THEN Goto(p, r, "done")
           ELSE IF getJira(cfg).isNull THEN Goto(p, r, "done")
           ELSE IF r.payload.action = "opened" THEN Goto(p, r, AfterExistingPc(r))
           ELSE Goto(p, r, "getCachedIssue")
    /\ UNCHANGED <<cachedIssue, jiraLinks, jiraComments, jiraAssignee, jiraReviewers,
                   prAssignee, prReviewers, calls, thrown, restOfOverlap>>

\* line 225: jira.getCachedIssue
GetCachedIssue(p) ==
    /\ At(p, "getCachedIssue")
    /\ \E ok \in BOOLEAN :
           /\ Issue(p, "metadata.get", <<>>, <<>>, ok)
           /\ IF ok
              THEN LET r == [running[p] EXCEPT !.existingIssue = cachedIssue]
                   IN  Goto(p, r, AfterExistingPc(r)) /\ UNCHANGED thrown
              ELSE Rejected(p)
    /\ UNCHANGED <<cachedIssue, jiraLinks, jiraComments, jiraAssignee, jiraReviewers,
                   prAssignee, prReviewers, restOfOverlap>>

\* line 226: jira.getIssueDetail, null when the GET failed
GetIssueDetail(p) ==
    /\ At(p, "getIssueDetail")
    /\ \E ok \in {b \in BOOLEAN : b => running[p].parsed.issue \in JiraIssues} :
           /\ Issue(p, "jira.GET issue", running[p].parsed.issue, <<>>, ok)
           /\ LET r == [running[p] EXCEPT
                            !.issueDetail = IF ok THEN IssueFields(World, running[p].parsed.issue)
                                            ELSE NoDetail]
              IN  Goto(p, r, AfterDetailPc(r))
    /\ UNCHANGED <<cachedIssue, jiraLinks, jiraComments, jiraAssignee, jiraReviewers,
                   prAssignee, prReviewers, thrown, restOfOverlap>>

\* the handles of the links a DELETE is issued for
RECURSIVE Selves(_)
Selves(links) == IF links = <<>> THEN <<>> ELSE <<Head(links).self>> \o Selves(Tail(links))

\* lines 236-238: the links of the old issue are read; a failure is caught
GetOldLinks(p) ==
    /\ At(p, "getOldLinks")
    /\ \E ok \in {b \in BOOLEAN : b => running[p].existingIssue \in JiraIssues} :
           /\ Issue(p, "jira.GET remotelink", running[p].existingIssue, <<>>, ok)
           /\ LET r == [running[p] EXCEPT
                            !.existingLinks =
                                IF ok
                                THEN Selves(SelectSeq(jiraLinks[running[p].existingIssue],
                                                      IsPrLink))
                                ELSE <<>>]
              IN  Goto(p, r, IF r.existingLinks = <<>> THEN AddNewPc(r) ELSE "deleteOldLink")
    /\ UNCHANGED <<cachedIssue, jiraLinks, jiraComments, jiraAssignee, jiraReviewers,
                   prAssignee, prReviewers, thrown, restOfOverlap>>

\* lines 239-244: one of the DELETEs; a failure is caught
DeleteOldLink(p) ==
    /\ At(p, "deleteOldLink")
    /\ LET r == running[p]
           self == Head(r.existingLinks)
           rest == [r EXCEPT !.existingLinks = Tail(@)]
       IN  /\ \E ok \in {b \in BOOLEAN : b => self \in LinkSelves(jiraLinks[r.existingIssue])} :
                  /\ Issue(p, "jira.DELETE remotelink", r.existingIssue, self, ok)
                  /\ jiraLinks' = IF ok
                                  THEN [jiraLinks EXCEPT ![r.existingIssue] = WithoutLink(@, self)]
                                  ELSE jiraLinks
           /\ Goto(p, rest, IF rest.existingLinks = <<>> THEN AddNewPc(rest)
                            ELSE "deleteOldLink")
    /\ UNCHANGED <<cachedIssue, jiraComments, jiraAssignee, jiraReviewers,
                   prAssignee, prReviewers, thrown, restOfOverlap>>

\* lines 253-254: the links of the detected issue are read and tested
GetLinks(p) ==
    /\ At(p, "getLinks")
    /\ LET r == running[p]
       IN  \E ok \in BOOLEAN :
               /\ Issue(p, "jira.GET remotelink", r.parsed.issue, <<>>, ok)
               /\ IF ok
                  THEN /\ Goto(p, r, IF \E i \in DOMAIN jiraLinks[r.parsed.issue] :
                                            jiraLinks[r.parsed.issue][i].url = PrUrl
                                     THEN "setCachedIssue" ELSE "postLink")
                       /\ UNCHANGED thrown
                  ELSE Rejected(p)
    /\ UNCHANGED <<cachedIssue, jiraLinks, jiraComments, jiraAssignee, jiraReviewers,
                   prAssignee, prReviewers, restOfOverlap>>

\* lines 255-263: the POST of the link
PostLink(p) ==
    /\ At(p, "postLink")
    /\ LET r == running[p]
           link == NewLink(jiraLinks[r.parsed.issue], r.parsed.description)
       IN  \E ok \in BOOLEAN :
               /\ Issue(p, "jira.POST remotelink", r.parsed.issue, link, ok)
               /\ IF ok
                  THEN /\ jiraLinks' = [jiraLinks EXCEPT ![r.parsed.issue] = Append(@, link)]
                       /\ Goto(p, r, "commentLinked")
                       /\ UNCHANGED thrown
                  ELSE Rejected(p) /\ UNCHANGED jiraLinks
    /\ UNCHANGED <<cachedIssue, jiraComments, jiraAssignee, jiraReviewers,
                   prAssignee, prReviewers, restOfOverlap>>

\* the comment AddNewIssue writes at pc
OutcomeCommentAt(r, pc) ==
    CASE pc = "commentLinked" -> LinkedComment(r.parsed.issue)
      [] pc = "commentNotFound" -> NotFoundComment(r.parsed.issue)
      [] OTHER -> NoIssueComment(getJira(cfg).projectKey)

\* lines 264-267, 272-275, 278-281: writeComment
WriteOutcomeComment(p) ==
    /\ running[p].pc \in {"commentLinked", "commentNotFound", "commentNoIssue"}
    /\ \E ok \in BOOLEAN :
           /\ Issue(p, "github.issues.createComment", <<>>,
                    OutcomeCommentAt(running[p], running[p].pc), ok)
           /\ IF ok THEN Goto(p, running[p], "setCachedIssue") /\ UNCHANGED thrown
              ELSE Rejected(p)
    /\ UNCHANGED <<cachedIssue, jiraLinks, jiraComments, jiraAssignee, jiraReviewers,
                   prAssignee, prReviewers, restOfOverlap>>

\* SetCachedIssue on a store that keeps the value another invocation wrote
\* since this one was received
SetCachedIssueKeepingFirst(p) ==
    /\ At(p, "setCachedIssue")
    /\ Issue(p, "metadata.set", <<>>, running[p].parsed.issue, TRUE)
    /\ cachedIssue' = IF \E i \in DOMAIN calls : calls[i].op = "metadata.set" /\ calls[i].ok
                      THEN cachedIssue ELSE running[p].parsed.issue
    /\ Goto(p, running[p], "syncDetail")
    /\ UNCHANGED <<jiraLinks, jiraComments, jiraAssignee, jiraReviewers,
                   prAssignee, prReviewers, thrown, restOfOverlap>>

\* line 285: jira.setCachedIssue
SetCachedIssue(p) ==
    /\ At(p, "setCachedIssue")
    /\ \E ok \in BOOLEAN :
           /\ Issue(p, "metadata.set", <<>>, running[p].parsed.issue, ok)
           /\ IF ok
              THEN /\ cachedIssue' = running[p].parsed.issue
                   /\ Goto(p, running[p], "syncDetail")
                   /\ UNCHANGED thrown
              ELSE Rejected(p) /\ UNCHANGED cachedIssue
    /\ UNCHANGED <<jiraLinks, jiraComments, jiraAssignee, jiraReviewers,
                   prAssignee, prReviewers, restOfOverlap>>

\* the detail sync of invocation r on the state as it is, the calls at the
\* positions of F failing
SyncDetailOf(r, F) ==
    SyncDetail(World, F, getJira(cfg), r.parsed.issue, r.parsed.description, r.payload,
               r.issueDetail)

\* as FailChoices, for the calls of the detail sync
RECURSIVE SyncFailChoices(_, _, _)
SyncFailChoices(r, F, k) ==
    IF k = 0 THEN {F}
    ELSE LET n == Len(SyncDetailOf(r, F).calls)
             from == IF F = {} THEN 1 ELSE Max(F) + 1
         IN  {F} \cup UNION {SyncFailChoices(r, F \cup {i}, k - 1) : i \in from..n}

RECURSIVE CallsBy(_, _)
CallsBy(p, cs) ==
    IF cs = <<>> THEN <<>>
    ELSE (IF IsWrite(Head(cs).op)
          THEN <<[op |-> Head(cs).op, issue |-> Head(cs).issue, arg |-> Head(cs).arg,
                  ok |-> Head(cs).ok, by |-> p]>>
          ELSE <<>>) \o CallsBy(p, Tail(cs))

\* the state after the detail sync of invocation p ended in w
Synced(p, w) ==
    /\ jiraComments' = w.comments
    /\ jiraAssignee' = w.assignee
    /\ jiraReviewers' = w.reviewers
    /\ prAssignee' = w.prAssignee
    /\ prReviewers' = w.prReviewers
    /\ calls' = calls \o CallsBy(p, w.calls)
    /\ thrown' = (thrown \/ w.thrown)

\* lines 288-380
SyncDetailStep(p) ==
    /\ At(p, "syncDetail")
    /\ \E F \in SyncFailChoices(running[p], {}, MaxFail) :
           Synced(p, SyncDetailOf(running[p], F))
    /\ Goto(p, running[p], "done")
    /\ UNCHANGED <<cachedIssue, jiraLinks, restOfOverlap>>

NextOverlap ==
    \E p \in Invocations :
        \/ Receive(p)
        \/ GetCachedIssue(p)
        \/ GetIssueDetail(p)
        \/ GetOldLinks(p)
        \/ DeleteOldLink(p)
        \/ GetLinks(p)
        \/ PostLink(p)
        \/ WriteOutcomeComment(p)
        \/ SetCachedIssue(p)
        \/ SyncDetailStep(p)

SpecOverlap == InitOverlap /\ [][NextOverlap]_vars

AllDone == \A p \in Invocations : At(p, "done")

(***************************************************************************)
(* C19                                                                     *)
(***************************************************************************)
\* C19: when two overlapping invocations of the opened/edited handler for
\* the same pull request detect the same issue, the issue has at most one
\* remote link to the pull request's URL once both have ended
C19_Original ==
    (/\ AllDone
     /\ running[1].parsed.issue = running[2].parsed.issue
     /\ running[1].parsed.issue \in JiraIssues)
        => Cardinality(PrLinks(running[1].parsed.issue)) <= 1

(***************************************************************************)
(* C20                                                                     *)
(***************************************************************************)
\* the writes of the metadata that succeeded, in the order of their issue
MetadataWrites == SelectSeq(calls, LAMBDA c : c.op = "metadata.set" /\ c.ok)

BothEdited ==
    /\ \A p \in Invocations : running[p].payload.action = "edited"
    /\ running[1].payload.title # running[2].payload.title

\* C20: of two overlapping edited invocations for the same pull request with
\* different titles, the one that wrote the metadata last decides: whenever
\* one of them has written, the metadata holds the key the last write
\* carried, whichever invocation issued it
C20_LastWriteWins ==
    (BothEdited /\ MetadataWrites # <<>>) =>
        cachedIssue = MetadataWrites[Len(MetadataWrites)].arg

\* both invocations have ended, the one delivered later wrote first: the
\* metadata holds the key of the earlier title and not that of the latest
C20_Witness ==
    /\ BothEdited
    /\ AllDone
    /\ Len(MetadataWrites) = 2
    /\ MetadataWrites[1].by = 2
    /\ MetadataWrites[2].by = 1
    /\ cachedIssue = running[1].parsed.issue
    /\ cachedIssue # running[2].parsed.issue

(***************************************************************************)
(* C21                                                                     *)
(***************************************************************************)
\* the calls made while the new issue is linked and its outcome told
LinkingOps == {"jira.GET remotelink", "jira.POST remotelink", "github.issues.createComment"}

\* the step handles an opened or edited event in a configured repository, the
\* handler learns the cached issue, and the key of the title is another one
KeyChangedStep ==
    /\ IsOpenedOrEdited(lastEvent')
    /\ IsConfigured
    /\ lastEvent'.action = "edited" =>
           /\ lastEvent'.changes
           /\ \E i \in DOMAIN calls' : calls'[i].op = "metadata.get" /\ calls'[i].ok
    /\ Detected(lastEvent') # ExistingIssue

\* C21: whenever the detected key differs from the cached Association, the
\* opened/edited handler writes the new Association (possibly empty) before
\* it ends, whichever branch it takes and even if a call made while linking
\* the new issue (the fetch of the remote links, the creation of the link) or
\* the outcome comment fails
C21_Original ==
    [][(KeyChangedStep /\ \A i \in DOMAIN calls' : ~calls'[i].ok => calls'[i].op \in LinkingOps)
          => \E i \in DOMAIN calls' :
                 calls'[i].op = "metadata.set" /\ calls'[i].arg = Detected(lastEvent')]_vars

(***************************************************************************)
(* C22                                                                     *)
(***************************************************************************)
\* call c reads or deletes the remote links of the issue that was cached
IsStaleRemoval(c) ==
    c.op \in {"jira.GET remotelink", "jira.DELETE remotelink"} /\ c.issue = cachedIssue

\* the comments of the assignee sync
AssigneeTexts == {AssignedComment(<<>>, "").text, AssigneeFailedComment(<<>>).text,
                  CouldNotUpdateAssigneeComment(<<>>, "").text}

\* the step handles an edit that changes the key, the removal of the old
\* reference fails, and nothing else does (but the lookup of an issue Jira
\* does not have)
StaleRemovalFailedStep ==
    /\ KeyChangedStep
    /\ lastEvent'.action = "edited"
    /\ cachedIssue # <<>>
    /\ \E i \in DOMAIN calls' : IsStaleRemoval(calls'[i]) /\ ~calls'[i].ok
    /\ \A i \in DOMAIN calls' :
           ~calls'[i].ok => IsStaleRemoval(calls'[i]) \/ calls'[i].op = "jira.GET issue"

\* the outcome comment the step owes
OutcomeCommentOfStep ==
    IF Detected(lastEvent') = <<>> THEN NoIssueComment(cfg.projectKey)
    ELSE IF LookupFailed(calls') THEN NotFoundComment(Detected(lastEvent'))
    ELSE LinkedComment(Detected(lastEvent'))

\* C22: when the fetch or a deletion of the stale remote links of the issue
\* that was cached fails, the handler posts no comment about the failure and
\* goes on: it links the detected issue (reads its links and creates the
\* link where there is none), posts the outcome comment as it does without
\* the failure (none for a link that was there already) and writes the new
\* Association
C22_StaleRemovalBestEffort ==
    [][StaleRemovalFailedStep =>
          /\ \A i \in DOMAIN calls' :
                 calls'[i].op = "github.issues.createComment" =>
                     \/ calls'[i].arg = OutcomeCommentOfStep
                     \/ calls'[i].arg.text \in AssigneeTexts
          /\ (Detected(lastEvent') # <<>> /\ ~LookupFailed(calls')) =>
                 /\ \E i \in DOMAIN calls' :
                        /\ calls'[i].op = "jira.GET remotelink"
                        /\ calls'[i].issue = Detected(lastEvent')
                 /\ \E i \in DOMAIN jiraLinks'[Detected(lastEvent')] :
                        jiraLinks'[Detected(lastEvent')][i].url = PrUrl
          /\ Len(SelectSeq(calls', IsOutcomeComment)) =
                 (IF Detected(lastEvent') # <<>> /\ ~LookupFailed(calls')
                     /\ ~\E i \in DOMAIN calls' : calls'[i].op = "jira.POST remotelink"
                  THEN 0 ELSE 1)
          /\ \E i \in DOMAIN calls' :
                 /\ calls'[i].op = "metadata.set" /\ calls'[i].ok
                 /\ calls'[i].arg = Detected(lastEvent')
          /\ cachedIssue' = Detected(lastEvent')]_vars

\* an edit moved the PR from TEST-1 to TEST-2, the deletion of the link on
\* TEST-1 failed: TEST-2 got its link and its comment, the Association is
\* TEST-2
C22_Witness ==
    /\ IsEdit(lastEvent)
    /\ Detected(lastEvent) = Key2
    /\ \E i \in DOMAIN calls :
           calls[i].op = "jira.DELETE remotelink" /\ calls[i].issue = Key1 /\ ~calls[i].ok
    /\ \E i \in DOMAIN calls : calls[i].op = "jira.POST remotelink" /\ calls[i].ok
    /\ Len(CommentsPosted(LinkedComment(Key2).text)) = 1
    /\ cachedIssue = Key2
    /\ ~thrown

(***************************************************************************)
(* C23                                                                     *)
(***************************************************************************)
\* the handles the DELETEs of a step name on issue k
DeletedSelves(k) ==
    {calls'[i].arg : i \in {j \in DOMAIN calls' :
                               calls'[j].op = "jira.DELETE remotelink" /\ calls'[j].issue = k}}

\* those of the DELETEs that succeeded
RemovedSelves(k) ==
    {calls'[i].arg : i \in {j \in DOMAIN calls' :
                               /\ calls'[j].op = "jira.DELETE remotelink"
                               /\ calls'[j].issue = k /\ calls'[j].ok}}

\* the step handles an edit whose key differs from the cached issue, which
\* is one Jira has
StaleReferenceStep ==
    /\ KeyChangedStep
    /\ lastEvent'.action = "edited"
    /\ cachedIssue \in JiraIssues

\* C23: when the detected key differs from the non-empty cached issue, the
\* handler deletes exactly the remote links of the cached issue whose URL is
\* this PR's (one DELETE for each, once their list was fetched); the links of
\* that issue with other URLs and the links of every other issue stay as
\* they are through the removal
C23_RemovesOnlyThisPrsLinks ==
    [][StaleReferenceStep =>
          /\ DeletedSelves(cachedIssue) =
                 IF \E i \in DOMAIN calls' :
                        /\ calls'[i].op = "jira.GET remotelink" /\ calls'[i].ok
                        /\ calls'[i].issue = cachedIssue
                 THEN {jiraLinks[cachedIssue][i].self : i \in PrLinks(cachedIssue)}
                 ELSE {}
          /\ Len(SelectSeq(calls', LAMBDA c : c.op = "jira.DELETE remotelink")) =
                 Cardinality(DeletedSelves(cachedIssue))
          /\ jiraLinks'[cachedIssue] =
                 SelectSeq(jiraLinks[cachedIssue],
                           LAMBDA l : l.self \notin RemovedSelves(cachedIssue))
          /\ \A k \in JiraIssues \ {cachedIssue} :
                 /\ Len(jiraLinks'[k]) >= Len(jiraLinks[k])
                 /\ SubSeq(jiraLinks'[k], 1, Len(jiraLinks[k])) = jiraLinks[k]]_vars

\* an edit moved the PR from TEST-1, which carries the link of another PR
\* too, to TEST-2: the PR's link on TEST-1 is gone, the other one is there
C23_Witness ==
    /\ IsEdit(lastEvent)
    /\ Detected(lastEvent) = Key2
    /\ \E i \in DOMAIN calls :
           calls[i].op = "jira.DELETE remotelink" /\ calls[i].issue = Key1 /\ calls[i].ok
    /\ jiraLinks[Key1] = <<OtherLink>>
    /\ cachedIssue = Key2

(***************************************************************************)
(* C24                                                                     *)
(***************************************************************************)
\* the step handles an opened or edited event whose key changed, the detail
\* of the detected issue was found and its remote links were fetched
FoundIssueStep ==
    /\ KeyChangedStep
    /\ Detected(lastEvent') \in JiraIssues
    /\ ~LookupFailed(calls')
    /\ \E i \in DOMAIN calls' :
           /\ calls'[i].op = "jira.GET remotelink" /\ calls'[i].ok
           /\ calls'[i].issue = Detected(lastEvent')

LinkPosts == SelectSeq(calls', LAMBDA c : c.op = "jira.POST remotelink")

LinkedComments ==
    SelectSeq(calls', LAMBDA c : c.op = "github.issues.createComment"
                                     /\ c.arg.text = LinkedComment(<<>>).text)

\* C24: when the detected key changed and the detail of the detected issue
\* was found, a remote link with the PR's URL and the title 'GitHub PR #{id}
\* - {description}' is created if and only if no link of that issue has the
\* PR's URL, and the 'Successfully linked' comment is posted if and only if
\* the link was created in this invocation: a link that is there already
\* brings neither a create call nor a comment
C24_LinkCreatedIffMissing ==
    [][FoundIssueStep =>
          /\ Len(LinkPosts) = (IF PrLinks(Detected(lastEvent')) = {} THEN 1 ELSE 0)
          /\ \A i \in DOMAIN LinkPosts :
                 /\ LinkPosts[i].issue = Detected(lastEvent')
                 /\ LinkPosts[i].arg.url = PrUrl
                 /\ LinkPosts[i].arg.title =
                        LinkTitle(PrId, parseTitle(cfg.projectKey, lastEvent'.title).description)
                 /\ LinkPosts[i].ok =>
                        jiraLinks'[Detected(lastEvent')] =
                            Append(jiraLinks[Detected(lastEvent')], LinkPosts[i].arg)
          /\ Len(LinkedComments) =
                 (IF \E i \in DOMAIN LinkPosts : LinkPosts[i].ok THEN 1 ELSE 0)
          /\ \A i \in DOMAIN LinkedComments :
                 LinkedComments[i].arg = LinkedComment(Detected(lastEvent'))
          /\ (\A i \in DOMAIN LinkPosts : ~LinkPosts[i].ok) =>
                 jiraLinks'[Detected(lastEvent')] = jiraLinks[Detected(lastEvent')]]_vars

\* the PR was opened for TEST-1 once more: the link was there, the handler
\* posted nothing and wrote the Association
C24_Witness ==
    /\ lastEvent.name = "pull_request" /\ lastEvent.action = "opened"
    /\ Detected(lastEvent) = Key1
    /\ Cardinality(PrLinks(Key1)) = 1
    /\ calls # <<>>
    /\ \A i \in DOMAIN calls :
           calls[i].op \notin {"jira.POST remotelink", "github.issues.createComment"}
    /\ \E i \in DOMAIN calls : calls[i].op = "metadata.set" /\ calls[i].ok

(***************************************************************************)
(* C25                                                                     *)
(***************************************************************************)
\* the calls of the detail sync: the upsert of the comment in Jira, the
\* assignee sync of both directions with its lookups and comments, the
\* reviewer sync of both directions
DetailSyncOps ==
    {"jira.PUT comment", "jira.POST comment", "github.issues.addAssignees",
     "jira.GET user", "jira.GET user/search", "jira.PUT issue/assignee",
     "github.pulls.requestReviewers", "jira.PUT issue"}

IsDetailSyncCall(c) ==
    \/ c.op \in DetailSyncOps
    \/ c.op = "github.issues.createComment" /\ c.arg.text \in AssigneeTexts

\* C25: the detail sync issues calls only when a key was detected and the
\* fetch of its detail succeeded: with no key in the title or a failed fetch
\* the opened/edited handler writes no comment in Jira and no assignee and
\* no reviewers on either side
C25_NoDetailNoSync ==
    (IsOpenedOrEdited(lastEvent) /\ (Detected(lastEvent) = <<>> \/ LookupFailed(calls)))
        => \A i \in DOMAIN calls : ~IsDetailSyncCall(calls[i])

\* a PR with an assignee was opened for TEST-1 and the fetch of the issue's
\* detail failed: the Association was written and nothing was synced
C25_Witness ==
    /\ IsOpenedOrEdited(lastEvent)
    /\ Detected(lastEvent) = Key1
    /\ LookupFailed(calls)
    /\ lastEvent.assignee # ""
    /\ \E i \in DOMAIN calls : calls[i].op = "metadata.set" /\ calls[i].ok
    /\ \A i \in DOMAIN calls : ~IsDetailSyncCall(calls[i])

(***************************************************************************)
(* C26                                                                     *)
(***************************************************************************)
\* the calls with which setAssignee pushes the PR's assignee to Jira
PushAssigneeOps == {"jira.GET user", "jira.GET user/search", "jira.PUT issue/assignee"}

\* C26: in the detail sync an assignee is added to the PR only when the PR
\* has none, the issue has one and it maps back to a login, which is the one
\* added; the PR's assignee is pushed to Jira only when the PR has one and
\* the issue has none; when both sides or neither have an assignee no
\* assignee is written on either side
C26_AssigneeSyncDirections ==
    [][IsOpenedOrEdited(lastEvent') =>
          \A i \in DOMAIN calls' :
              /\ calls'[i].op = "github.issues.addAssignees" =>
                     /\ lastEvent'.assignee = ""
                     /\ Detected(lastEvent') \in JiraIssues
                     /\ jiraAssignee[Detected(lastEvent')] # ""
                     /\ ~Unmappable(jiraAssignee[Detected(lastEvent')])
                     /\ calls'[i].arg =
                            {toGitHubUser(cfg.userMap, jiraAssignee[Detected(lastEvent')])}
              /\ (calls'[i].op \in PushAssigneeOps
                      \/ (calls'[i].op = "github.issues.createComment"
                              /\ calls'[i].arg.text \in AssigneeTexts)) =>
                     /\ lastEvent'.assignee # ""
                     /\ Detected(lastEvent') \in JiraIssues
                     /\ jiraAssignee[Detected(lastEvent')] = ""]_vars

\* TEST-1 is assigned to B and the PR, which has no assignee, was edited: b
\* was added to the PR
C26_Witness ==
    /\ IsOpenedOrEdited(lastEvent)
    /\ lastEvent.assignee = ""
    /\ Detected(lastEvent) = Key1
    /\ jiraAssignee[Key1] = "B"
    /\ \E i \in DOMAIN calls :
           /\ calls[i].op = "github.issues.addAssignees" /\ calls[i].ok
           /\ calls[i].arg = {"b"}
    /\ prAssignee = "b"

\* the PR and TEST-1 both have an assignee and the PR was edited: the detail
\* sync ran and wrote no assignee
C26_WitnessBoth ==
    /\ IsOpenedOrEdited(lastEvent)
    /\ lastEvent.assignee # ""
    /\ Detected(lastEvent) = Key1
    /\ jiraAssignee[Key1] # ""
    /\ \E i \in DOMAIN calls : calls[i].op \in {"jira.PUT comment", "jira.POST comment"}
    /\ \A i \in DOMAIN calls : calls[i].op \notin PushAssigneeOps

(***************************************************************************)
(* C27                                                                     *)
(***************************************************************************)
\* C27: in the reviewer sync a failure of the request of reviewers on the PR
\* does not keep the update of the reviewers field in Jira from being
\* issued, a failure of that update neither undoes nor blocks the PR side,
\* and neither failure posts a comment or ends the handler with an
\* exception: the request is followed by the update, which is the last call
C27_ReviewerSidesIndependent ==
    [][IsOpenedOrEdited(lastEvent') =>
          \A i \in DOMAIN calls' :
              /\ calls'[i].op = "github.pulls.requestReviewers" =>
                     /\ i + 1 = Len(calls')
                     /\ calls'[i + 1].op = "jira.PUT issue"
                     /\ prReviewers' = IF calls'[i].ok THEN prReviewers \cup calls'[i].arg
                                       ELSE prReviewers
              /\ calls'[i].op = "jira.PUT issue" =>
                     /\ i = Len(calls')
                     /\ ~thrown'
                     /\ ~calls'[i].ok => jiraReviewers' = jiraReviewers]_vars

\* the request of reviewers on the PR failed and the reviewers field of
\* TEST-1 was written
C27_Witness ==
    /\ IsOpenedOrEdited(lastEvent)
    /\ Len(calls) >= 2
    /\ calls[Len(calls) - 1].op = "github.pulls.requestReviewers"
    /\ ~calls[Len(calls) - 1].ok
    /\ calls[Len(calls)].op = "jira.PUT issue" /\ calls[Len(calls)].ok
    /\ ~thrown

\* the request of reviewers succeeded and the update in Jira failed: the
\* reviewers are requested on the PR
C27_WitnessJiraFailed ==
    /\ IsOpenedOrEdited(lastEvent)
    /\ Len(calls) >= 2
    /\ calls[Len(calls) - 1].op = "github.pulls.requestReviewers"
    /\ calls[Len(calls) - 1].ok
    /\ calls[Len(calls)].op = "jira.PUT issue" /\ ~calls[Len(calls)].ok
    /\ calls[Len(calls) - 1].arg \subseteq prReviewers
    /\ ~thrown

(***************************************************************************)
(* C28                                                                     *)
(***************************************************************************)
\* toAddToPr and toAddToJira of the invocation a step makes, from the
\* reviewers both sides have before it
ToAddToPrOfStep ==
    ToAddToPr(getJira(cfg), jiraReviewers[Detected(lastEvent')],
              lastEvent'.requested_reviewers, lastEvent'.user)

ToAddToJiraOfStep ==
    ToAddToJira(getJira(cfg), jiraReviewers[Detected(lastEvent')],
                lastEvent'.requested_reviewers)

\* C28: the reviewer sync issues only the operations that are needed: the
\* request of reviewers on the PR only when toAddToPr is not empty, the
\* update of the reviewers field in Jira only when toAddToJira is not empty
C28_Original ==
    [][IsOpenedOrEdited(lastEvent') =>
          \A i \in DOMAIN calls' :
              /\ calls'[i].op = "github.pulls.requestReviewers" => ToAddToPrOfStep # {}
              /\ calls'[i].op = "jira.PUT issue" => ToAddToJiraOfStep # {}]_vars

(***************************************************************************)
(* C29                                                                     *)
(***************************************************************************)
ReviewerWriteOps == {"github.pulls.requestReviewers", "jira.PUT issue"}

IsReviewEvent(event) ==
    event.name = "pull_request"
        /\ event.action \in {"review_requested", "review_request_removed"}

\* the step handles an opened or edited event for an issue Jira has, none of
\* the handler's calls fails (but a lookup of the assignee) and the handler
\* returns: the detail sync runs to its end
FullDetailSyncStep ==
    /\ IsOpenedOrEdited(lastEvent')
    /\ IsConfigured
    /\ lastEvent'.action = "edited" => lastEvent'.changes
    /\ Detected(lastEvent') \in JiraIssues
    /\ \A i \in DOMAIN calls' : calls'[i].ok \/ calls'[i].op \in PushAssigneeOps
    /\ ~thrown'

\* C29: when no reviewers field is configured no handler writes reviewers on
\* either side: the opened/edited handler skips the reviewer sync and still
\* runs the sync of the comment and of the assignee, and the handler of
\* review_requested / review_request_removed returns without reading the
\* Association and without any external call
C29_NoFieldNoReviewerWrite ==
    [][cfg.fields.reviewers = "" =>
          /\ \A i \in DOMAIN calls' : calls'[i].op \notin ReviewerWriteOps
          /\ jiraReviewers' = jiraReviewers
          /\ IsReviewEvent(lastEvent') => calls' = <<>> /\ ~thrown'
          /\ FullDetailSyncStep =>
                 /\ \E i \in DOMAIN calls' :
                        calls'[i].op \in {"jira.PUT comment", "jira.POST comment"}
                 /\ AssigneeSyncRan(Detected(lastEvent'))]_vars

\* no reviewers field is configured, b is requested as reviewer, and the PR,
\* assigned to b, was opened for TEST-1: the comment was written in Jira and
\* the issue assigned, the reviewers were left alone
C29_Witness ==
    /\ cfg.fields.reviewers = "" /\ IsConfigured
    /\ IsOpenedOrEdited(lastEvent)
    /\ lastEvent.requested_reviewers # {}
    /\ Detected(lastEvent) = Key1
    /\ \E i \in DOMAIN calls : calls[i].op = "jira.POST comment" /\ calls[i].ok
    /\ \E i \in DOMAIN calls : calls[i].op = "jira.PUT issue/assignee" /\ calls[i].ok
    /\ \A i \in DOMAIN calls : calls[i].op \notin ReviewerWriteOps
    /\ jiraReviewers[Key1] = {"A", "B", "X"}

\* no reviewers field is configured and a reviewer was requested on a PR
\* that has an Association: the handler made no call
C29_WitnessReviewEvent ==
    /\ cfg.fields.reviewers = "" /\ IsConfigured
    /\ IsReviewEvent(lastEvent)
    /\ cachedIssue = Key1
    /\ calls = <<>>

(***************************************************************************)
(* C30                                                                     *)
(***************************************************************************)
\* the positions of the reads and of the writes of the Association among
\* the calls of the invocation
AssociationReads == {i \in DOMAIN calls : calls[i].op = "metadata.get"}
AssociationWrites == {i \in DOMAIN calls : calls[i].op = "metadata.set"}

\* C30 as stated: the Association is read at most once, before any write of
\* the invocation, and written at most once, by the last call of the
\* invocation
C30_Original ==
    /\ Cardinality(AssociationReads) <= 1
    /\ \A i \in AssociationReads : \A j \in 1..(i - 1) : calls[j].op \notin WriteOps
    /\ Cardinality(AssociationWrites) <= 1
    /\ \A i \in AssociationWrites : i = Len(calls)

\* C30: in every handler invocation the Association is read at most once,
\* by the first call of the invocation, and written at most once, after the
\* last call of the title reconciliation: the calls that follow the write
\* are those of the detail sync, and none of the detail sync precedes it
C30_ReadFirstWriteAfterReconciliation ==
    /\ Cardinality(AssociationReads) <= 1
    /\ \A i \in AssociationReads : i = 1
    /\ Cardinality(AssociationWrites) <= 1
    /\ \A i \in AssociationWrites :
           /\ \A j \in 1..(i - 1) : ~IsDetailSyncCall(calls[j])
           /\ \A j \in (i + 1)..Len(calls) : IsDetailSyncCall(calls[j])

\* an edit moved the PR to another issue: the Association was read first,
\* and after its write the comment was written in Jira
C30_Witness ==
    /\ IsEdit(lastEvent)
    /\ calls # <<>> /\ calls[1].op = "metadata.get"
    /\ \E i \in AssociationWrites :
           /\ calls[i].ok /\ i > 2 /\ i < Len(calls)
           /\ calls[i + 1].op \in {"jira.PUT comment", "jira.POST comment"}

(***************************************************************************)
(* Re-delivery.  GitHub delivers an event once more: the handler runs on   *)
(* the payload of the event handled last, on the state as it is now.       *)
(***************************************************************************)
Redeliver ==
    /\ IsOpenedOrEdited(lastEvent)
    /\ \E F \in FailChoices(World, cfg, [lastEvent EXCEPT !.fail = {}], {}, MaxFail) :
           Handled(handle(World, F, cfg, [lastEvent EXCEPT !.fail = {}]),
                   [lastEvent EXCEPT !.fail = F])

NextRedelivery ==
    \/ Next
    \/ Redeliver

SpecRedelivery == Init /\ [][NextRedelivery]_vars

(***************************************************************************)
(* C31                                                                     *)
(***************************************************************************)
\* the handling of the opened or edited event succeeded in full, and the
\* step handles the event once more
RedeliveryAfterSuccess ==
    /\ IsOpenedOrEdited(lastEvent)
    /\ ~thrown
    /\ \A i \in DOMAIN calls : calls[i].ok
    /\ lastEvent'.name # ""

\* C31: the re-delivery of an opened or edited event whose first handling
\* succeeded in full changes nothing: no further remote link, no further
\* sync comment, no change of the assignee or the reviewers field in Jira,
\* no change of the Association, no new comment on GitHub
C31_Original ==
    [][RedeliveryAfterSuccess =>
          /\ jiraLinks' = jiraLinks
          /\ \A k \in JiraIssues : Len(jiraComments'[k]) = Len(jiraComments[k])
          /\ jiraAssignee' = jiraAssignee
          /\ jiraReviewers' = jiraReviewers
          /\ cachedIssue' = cachedIssue
          /\ \A i \in DOMAIN calls' :
                 ~(calls'[i].op = "github.issues.createComment" /\ calls'[i].ok)]_vars

(***************************************************************************)
(* The DELETEs of the old issue's links as the promises they are.  Lines   *)
(* 239-244 issue one DELETE for each link of existingLinks before any of   *)
(* them has ended and await Promise.all of them inside the try of line     *)
(* 235: the await ends when the last DELETE has succeeded or when the      *)
(* first one has failed, and the catch of line 245 only logs.  Here        *)
(* running[p].existingLinks holds the DELETEs of invocation p that have    *)
(* not ended yet, and they end in any order.  An issue can carry several   *)
(* links to the pull request: overlapping invocations create them.         *)
(***************************************************************************)
MaxStale == 2

\* n links to the pull request, after the link of another one
StaleLinks(n) ==
    [i \in 1..n |-> [self |-> i + 1, url |-> PrUrl, title |-> LinkTitle(PrId, <<"x">>)]]

InitRemoval ==
    /\ cfg = FullCfg /\ env = SmallEnv
    /\ cachedIssue = Key1
    /\ \E n \in 1..MaxStale :
           jiraLinks = [k \in JiraIssues |->
                           IF k = Key1 THEN <<OtherLink>> \o StaleLinks(n) ELSE <<>>]
    /\ jiraComments = [k \in JiraIssues |-> <<>>]
    /\ jiraAssignee = [k \in JiraIssues |-> ""]
    /\ jiraReviewers = [k \in JiraIssues |-> {}]
    /\ prAssignee = "" /\ prReviewers = {}
    /\ calls = <<>> /\ thrown = FALSE /\ lastEvent = NoEvent
    /\ given = <<>> /\ returned = NotApplied
    /\ \E a \in {"opened", "edited"}, t \in OverlapTitles :
           running = [p \in Invocations |->
                         IF p = 1 THEN Received(a, t)
                         ELSE [Received("edited", TitleFix) EXCEPT !.pc = "done"]]

\* lines 239-247: one of the DELETEs ends.  The await of Promise.all ends
\* with the last DELETE, or with the first one that fails; the handler goes
\* on with line 250 then, whatever DELETEs are still on their way.
SettleDelete(p) ==
    /\ running[p].existingLinks # <<>>
    /\ \E i \in DOMAIN running[p].existingLinks :
           LET r == running[p]
               self == r.existingLinks[i]
               rest == [r EXCEPT !.existingLinks = SelectSeq(@, LAMBDA s : s # self)]
           IN  \E ok \in {b \in BOOLEAN : b => self \in LinkSelves(jiraLinks[r.existingIssue])} :
                   /\ Issue(p, "jira.DELETE remotelink", r.existingIssue, self, ok)
                   /\ jiraLinks' = IF ok
                                   THEN [jiraLinks EXCEPT ![r.existingIssue] = WithoutLink(@, self)]
                                   ELSE jiraLinks
                   /\ Goto(p, rest, IF r.pc = "deleteOldLink"
                                       /\ (~ok \/ rest.existingLinks = <<>>)
                                    THEN AddNewPc(rest)
                                    ELSE r.pc)
    /\ UNCHANGED <<cachedIssue, jiraComments, jiraAssignee, jiraReviewers,
                   prAssignee, prReviewers, thrown, restOfOverlap>>

NextRemoval ==
    \E p \in Invocations :
        \/ Receive(p)
        \/ GetCachedIssue(p)
        \/ GetIssueDetail(p)
        \/ GetOldLinks(p)
        \/ SettleDelete(p)
        \/ GetLinks(p)
        \/ PostLink(p)
        \/ WriteOutcomeComment(p)
        \/ SetCachedIssue(p)
        \/ SyncDetailStep(p)

SpecRemoval == InitRemoval /\ [][NextRemoval]_vars

(***************************************************************************)
(* C32                                                                     *)
(***************************************************************************)
\* invocation p has begun to link the detected issue: the GET of its links
\* (line 253) or the POST of the new one (255-263) is on its way
Linking(p) == running[p].pc \in {"getLinks", "postLink"}

\* C32: the DELETEs of one invocation are awaited together: while one of
\* them has not ended yet, a failed one or not among the others, the
\* invocation neither fetches the links of the detected issue nor creates
\* the new link
C32_Original ==
    \A p \in Invocations : Linking(p) => running[p].existingLinks = <<>>

\* the same while every DELETE of the invocation that ended has succeeded
C32_AwaitedTogetherWithoutFailure ==
    \A p \in Invocations :
        (/\ Linking(p)
         /\ \A i \in DOMAIN calls :
                (calls[i].by = p /\ calls[i].op = "jira.DELETE remotelink") => calls[i].ok)
            => running[p].existingLinks = <<>>

(***************************************************************************)
(* The events of one pull request handled one after the other, no call of  *)
(* any of the invocations failing.  The opened event carries the title and *)
(* the description the pull request was opened with, however often and     *)
(* however late GitHub delivers it; the edited events carry any title.     *)
(***************************************************************************)
TitleWhenOpened == TitleFix
BodyWhenOpened == BodyText

Succeeded == \A i \in DOMAIN calls : calls[i].ok

OpenedDelivered ==
    /\ Deliver(World, Payload("pull_request", "opened", FALSE, TitleWhenOpened,
                              BodyWhenOpened, prAssignee, prReviewers))
    /\ Succeeded'

EditedDelivered ==
    /\ PullRequestEdited
    /\ Succeeded'

NextSucceeding ==
    \/ OpenedDelivered
    \/ EditedDelivered
    \/ AwaitNextEvent

SpecSucceeding == Init /\ [][NextSucceeding]_vars

(***************************************************************************)
(* C33                                                                     *)
(***************************************************************************)
\* C33: after opened and edited events handled one after the other without
\* a failing call, an issue carries a remote link to the pull request's URL
\* only if it is the issue the metadata of the pull request holds
C33_Original ==
    \A k \in JiraIssues : PrLinks(k) # {} => cachedIssue = k

(***************************************************************************)
(* C34                                                                     *)
(***************************************************************************)
IsAssignedEvent(event) == event.name = "pull_request" /\ event.action = "assigned"

\* C34: the handlers of pull_request.assigned and of review_requested /
\* review_request_removed never write the metadata of the pull request, and
\* with empty metadata they read it and do nothing else: no call to Jira,
\* no comment
C34_AssociationReadOnly ==
    [][(IsAssignedEvent(lastEvent') \/ IsReviewEvent(lastEvent')) =>
          /\ cachedIssue' = cachedIssue
          /\ \A i \in DOMAIN calls' : calls'[i].op # "metadata.set"
          /\ cachedIssue = <<>> =>
                 /\ \A i \in DOMAIN calls' : calls'[i].op = "metadata.get"
                 /\ jiraLinks' = jiraLinks /\ jiraComments' = jiraComments
                 /\ jiraAssignee' = jiraAssignee /\ jiraReviewers' = jiraReviewers]_vars

\* an assigned event was handled with empty metadata: the handler read it
C34_Witness ==
    /\ IsAssignedEvent(lastEvent) /\ lastEvent.assignee # ""
    /\ IsConfigured
    /\ cachedIssue = <<>>
    /\ Len(calls) = 1 /\ calls[1].op = "metadata.get" /\ calls[1].ok

\* the same for a change of the requested reviewers
C34_WitnessReviewEvent ==
    /\ IsReviewEvent(lastEvent)
    /\ IsConfigured /\ cfg.fields.reviewers # ""
    /\ cachedIssue = <<>>
    /\ Len(calls) = 1 /\ calls[1].op = "metadata.get" /\ calls[1].ok

\* an assigned event was handled with an issue in the metadata: the handler
\* called Jira and left the metadata alone
C34_WitnessAssociated ==
    /\ AssignedWithAssociation
    /\ \E i \in DOMAIN calls : calls[i].op = "jira.PUT issue/assignee" /\ calls[i].ok

(***************************************************************************)
(* C35                                                                     *)
(***************************************************************************)
\* the step handles an opened or edited event for an issue Jira has, and no
\* call of the invocation fails: the handler reaches the detail sync
\* (line 289) and nothing but the building of the comment's body (291-297)
\* can end it
DetailSyncWithoutFailure ==
    /\ IsOpenedOrEdited(lastEvent')
    /\ IsConfigured
    /\ lastEvent'.action = "edited" => lastEvent'.changes
    /\ Detected(lastEvent') \in JiraIssues
    /\ \A i \in DOMAIN calls' : calls'[i].ok

\* C35: whatever the description of the pull request (none, an empty one,
\* one that begins with the separator row of a table), the building of the
\* sync comment's body does not end the handler: the comment is written and
\* the assignee sync and the reviewer sync of the invocation run
C35_Original ==
    [][DetailSyncWithoutFailure =>
          /\ ~thrown'
          /\ DetailSyncStep
          /\ AssigneeSyncRan(Detected(lastEvent'))
          /\ ReviewerSyncRan]_vars

(***************************************************************************)
(* The events the engine causes.  GitHub delivers a pull_request.assigned  *)
(* event for the assignee a successful addAssignees added (lines 322-326)  *)
(* and a pull_request.review_requested event for each reviewer of a        *)
(* successful requestReviewers (347-351).  Here running holds these events *)
(* from the end of the invocation that caused them until they are handled; *)
(* the events the users cause are delivered as before.                     *)
(***************************************************************************)
\* the events GitHub sends for one call, the PR being as the handler left it
TriggeredBy(call) ==
    IF ~call.ok THEN <<>>
    ELSE IF call.op = "github.issues.addAssignees"
    THEN <<Payload("pull_request", "assigned", FALSE, <<>>, NullBody,
                   CHOOSE u \in call.arg : TRUE, prReviewers)>>
    ELSE IF call.op = "github.pulls.requestReviewers"
    THEN [i \in 1..Cardinality(call.arg) |->
             Payload("pull_request", "review_requested", FALSE, <<>>, NullBody,
                     prAssignee, prReviewers)]
    ELSE <<>>

RECURSIVE Triggered(_)
Triggered(cs) == IF cs = <<>> THEN <<>> ELSE TriggeredBy(Head(cs)) \o Triggered(Tail(cs))

\* the invocation has ended: the events its calls caused are on their way
EnqueueTriggered ==
    /\ ~Idle
    /\ running' = running \o Triggered(calls)
    /\ calls' = <<>>
    /\ thrown' = FALSE
    /\ lastEvent' = NoEvent
    /\ UNCHANGED <<cfg, env, cachedIssue, jiraLinks, jiraComments, jiraAssignee,
                   jiraReviewers, prAssignee, prReviewers, given, returned>>

\* the state after the invocation for one of the events on their way ended
\* in w, rest being the others
HandledTriggered(w, event, rest) ==
    /\ cachedIssue' = w.cached
    /\ jiraLinks' = w.links
    /\ jiraComments' = w.comments
    /\ jiraAssignee' = w.assignee
    /\ jiraReviewers' = w.reviewers
    /\ prAssignee' = w.prAssignee
    /\ prReviewers' = w.prReviewers
    /\ calls' = w.calls
    /\ thrown' = w.thrown
    /\ lastEvent' = event
    /\ running' = rest
    /\ UNCHANGED <<cfg, env, given, returned>>

\* one of the events on their way is delivered and handled
DeliverTriggered ==
    /\ Idle
    /\ \E i \in DOMAIN running :
           \E F \in FailChoices(World, cfg, running[i], {}, MaxFail) :
               HandledTriggered(handle(World, F, cfg, running[i]),
                                [running[i] EXCEPT !.fail = F],
                                SubSeq(running, 1, i - 1)
                                    \o SubSeq(running, i + 1, Len(running)))

\* the chains are followed one at a time: the users' next event comes when
\* the events the last one caused have been handled
ChainOver == running = <<>>

NextChain ==
    \/ ChainOver /\ IssuesOpened
    \/ ChainOver /\ PullRequestOpened
    \/ ChainOver /\ PullRequestEdited
    \/ ChainOver /\ PullRequestAssigned
    \/ ChainOver /\ ReviewRequested
    \/ ChainOver /\ ReviewRequestRemoved
    \/ EnqueueTriggered
    \/ DeliverTriggered

\* the runs in which the engine causes events: those of a repository with a
\* reviewers field whose users assign the pull request or request reviews
InitChain == Init /\ cfg = FullCfg

SpecChain == InitChain /\ [][NextChain]_vars

(***************************************************************************)
(* C36                                                                     *)
(***************************************************************************)
\* the calls that make GitHub send an event the engine handles
IsTriggeringCall(call) ==
    call.op \in {"github.issues.addAssignees", "github.pulls.requestReviewers"}

\* C36: the chain of invocations one opened or edited event sets off ends.
\* The handlers of the assigned and the reviewer events issue no call that
\* makes GitHub send a further event, so the events on their way grow only
\* at the end of an opened/edited invocation, and each delivery of one of
\* them takes one away: after as many invocations as the opened/edited
\* handler caused events the chain is over.
C36_ChainEnds ==
    [][/\ (IsAssignedEvent(lastEvent') \/ IsReviewEvent(lastEvent')) =>
              \A i \in DOMAIN calls' : ~IsTriggeringCall(calls'[i])
       /\ Len(running') > Len(running) => IsOpenedOrEdited(lastEvent)
       /\ (lastEvent'.name # "" /\ running' # running) =>
              Len(running') = Len(running) - 1]_vars

\* in a run whose users request no reviewers a review_requested event has
\* been handled, one the engine's requestReviewers caused: its handler wrote
\* the reviewers to Jira, and no event is on its way any more
C36_Witness ==
    /\ IsReviewEvent(lastEvent)
    /\ env.reviewers = {}
    /\ running = <<>>
    /\ \E i \in DOMAIN calls : calls[i].op = "jira.PUT issue" /\ calls[i].ok

\* the same with the assigned event the engine's addAssignees caused being
\* the last of the chain
C36_WitnessAssigned ==
    /\ IsAssignedEvent(lastEvent)
    /\ env.reviewers = {} /\ prReviewers # {}
    /\ running = <<>>
    /\ \E i \in DOMAIN calls : calls[i].op = "jira.PUT issue/assignee" /\ calls[i].ok

\* events of both kinds are on their way
C36_WitnessPending ==
    /\ \E i \in DOMAIN running : IsAssignedEvent(running[i])
    /\ \E i \in DOMAIN running : IsReviewEvent(running[i])

\* GitHub delivers every event it has sent, and every invocation ends
FairSpecChain == SpecChain /\ WF_vars(DeliverTriggered) /\ WF_vars(EnqueueTriggered)

\* the same as a property of the fair runs: whenever events the engine
\* caused are on their way, a state follows in which none is
C36_ChainOverEventually == (running # <<>>) ~> (running = <<>>)

====
